---- MODULE Spec2Model ----
(***************************************************************************)
(* Chart recommendation / validation engine, SQL query builder, insight    *)
(* calculator, keyword chart detection and tool-call handler of            *)
(* mcp_visualization, modelled from                                        *)
(*   src/mcp_visualization/visualization/chart_types.py                    *)
(*   src/mcp_visualization/database/queries.py                             *)
(*   src/mcp_visualization/visualization/insights.py                       *)
(*   src/code/llm/simple_fallback.py                                       *)
(*   src/mcp_visualization/mcp_server/handlers.py                          *)
(*   src/mcp_visualization/database/manager.py                             *)
(*                                                                         *)
(* All components but the handler are pure functions.  A behaviour of a    *)
(* pure function is one call: Init draws the arguments of the call into    *)
(* `call`, the action of the called function computes `result`.  A         *)
(* behaviour of the handler is a sequence of tool calls on the fields      *)
(* active_requests and db_manager of RequestHandler.                       *)
(*                                                                         *)
(* Text is modelled as a sequence of tokens.  Caller-supplied text (raw    *)
(* type labels, table names, column names, filter values) is a sequence of *)
(* one-character tokens; constant text of the program's f-strings is kept  *)
(* as multi-character tokens between them.                                 *)
(***************************************************************************)
EXTENDS Integers, Sequences, FiniteSets, TLC

\* call, result: the function or tool called last and what it returned;
\* active_requests, db_manager: the fields of RequestHandler
VARIABLES call, result, active_requests, db_manager

vars == <<call, result, active_requests, db_manager>>

\* the database the server opens at start: DatabaseManager() in initialize()
DefaultDatabase == "sales.duckdb"

\* a manager whose _connect() has succeeded; tables are the tables it shows
DatabaseManager(db_path, tables) ==
    [db_path |-> db_path, connection |-> "open", tables |-> tables]

\* the handler as initialize() builds it: no active request, the default
\* database open
HandlerConstructed ==
    /\ active_requests = <<>>
    /\ db_manager = DatabaseManager(DefaultDatabase, <<"sales_data">>)

\* result before the called function has run
Pending == [pending |-> TRUE]

(***************************************************************************)
(* Bounds                                                                  *)
(***************************************************************************)
\* longest column profile handed to validate_chart_configuration
MaxProfile == 2
\* longest column profile handed to suggest_chart_types
MaxSuggestProfile == 5
\* longest table name drawn from TableChars
MaxTableLen == 2
\* longest column name handed to the query builders
MaxColLen == 1
\* longest filter list handed to the query builders
MaxFilters == 2
\* most words joined into a raw type string for _categorize_column_type
MaxTypeWords == 2
\* most words of a request handed to detect_chart_type, and longest column list
MaxRequestWords == 2
MaxDetectColumns == 2
\* most requests held in active_requests at a time
MaxActive == 2

(***************************************************************************)
(* Generic helpers                                                         *)
(***************************************************************************)
Min(a, b) == IF a < b THEN a ELSE b

\* all sequences over S of length lo..hi
SeqsOf(S, lo, hi) == UNION { [1..n -> S] : n \in lo..hi }

\* Python `t in s` on strings: t is a contiguous substring of s
Contains(s, t) ==
    \E i \in 0..(Len(s) - Len(t)) : SubSeq(s, i + 1, i + Len(t)) = t

(***************************************************************************)
(* str.upper() on ASCII text                                               *)
(***************************************************************************)
LowerLetters ==
    <<"a","b","c","d","e","f","g","h","i","j","k","l","m",
      "n","o","p","q","r","s","t","u","v","w","x","y","z">>

UpperLetters ==
    <<"A","B","C","D","E","F","G","H","I","J","K","L","M",
      "N","O","P","Q","R","S","T","U","V","W","X","Y","Z">>

UpperOf ==
    [c \in { LowerLetters[i] : i \in 1..Len(LowerLetters) } |->
        UpperLetters[CHOOSE i \in 1..Len(LowerLetters) : LowerLetters[i] = c]]

upper(s) == [i \in 1..Len(s) |-> IF s[i] \in DOMAIN UpperOf THEN UpperOf[s[i]] ELSE s[i]]

(***************************************************************************)
(* ChartTypeRegistry._categorize_column_type                               *)
(***************************************************************************)
NumericTokens ==
    << <<"I","N","T","E","G","E","R">>, <<"B","I","G","I","N","T">>,
       <<"D","O","U","B","L","E">>, <<"F","L","O","A","T">>,
       <<"D","E","C","I","M","A","L">>, <<"N","U","M","E","R","I","C">>,
       <<"R","E","A","L">> >>

TemporalTokens ==
    << <<"D","A","T","E">>, <<"T","I","M","E","S","T","A","M","P">>,
       <<"T","I","M","E">> >>

\* _categorize_column_type with the temporal test made before the numeric one
_categorize_column_type_TemporalFirst(sql_type) ==
    LET sql_type_upper == upper(sql_type) IN
    IF \E k \in 1..Len(TemporalTokens) : Contains(sql_type_upper, TemporalTokens[k])
    THEN "temporal"
    ELSE IF \E k \in 1..Len(NumericTokens) : Contains(sql_type_upper, NumericTokens[k])
    THEN "numeric"
    ELSE "categorical"

_categorize_column_type(sql_type) ==
    LET sql_type_upper == upper(sql_type) IN
    IF \E k \in 1..Len(NumericTokens) : Contains(sql_type_upper, NumericTokens[k])
    THEN "numeric"
    ELSE IF \E k \in 1..Len(TemporalTokens) : Contains(sql_type_upper, TemporalTokens[k])
    THEN "temporal"
    ELSE "categorical"

(***************************************************************************)
(* ChartType and the catalog built by _initialize_definitions.  A          *)
(* requirement is ColumnRequirement(name, required, data_types); only the  *)
(* fields read by validation and suggestion are kept.                      *)
(***************************************************************************)
\* dict insertion order of chart_definitions
ChartOrder ==
    <<"bar", "line", "scatter", "pie", "histogram", "box", "heatmap", "area">>

ChartType == { ChartOrder[i] : i \in 1..Len(ChartOrder) }

Req(name, required, data_types) ==
    [name |-> name, required |-> required, data_types |-> data_types]

BarDefinition ==
    [column_requirements |->
        << Req("x_axis", TRUE, <<"categorical">>),
           Req("y_axis", TRUE, <<"numeric">>),
           Req("color", FALSE, <<"categorical">>) >>,
     min_columns |-> 2]

LineDefinition ==
    [column_requirements |->
        << Req("x_axis", TRUE, <<"numeric", "temporal">>),
           Req("y_axis", TRUE, <<"numeric">>),
           Req("color", FALSE, <<"categorical">>) >>,
     min_columns |-> 2]

\* the catalog with Scatter's color role declared as the wildcard
ScatterDefinition_ColorAny ==
    [column_requirements |->
        << Req("x_axis", TRUE, <<"numeric">>),
           Req("y_axis", TRUE, <<"numeric">>),
           Req("color", FALSE, <<"any">>),
           Req("size", FALSE, <<"numeric">>) >>,
     min_columns |-> 2]

ScatterDefinition ==
    [column_requirements |->
        << Req("x_axis", TRUE, <<"numeric">>),
           Req("y_axis", TRUE, <<"numeric">>),
           Req("color", FALSE, <<"categorical", "numeric">>),
           Req("size", FALSE, <<"numeric">>) >>,
     min_columns |-> 2]

PieDefinition ==
    [column_requirements |->
        << Req("category", TRUE, <<"categorical">>),
           Req("values", TRUE, <<"numeric">>) >>,
     min_columns |-> 2]

HistogramDefinition ==
    [column_requirements |->
        << Req("column", TRUE, <<"numeric">>) >>,
     min_columns |-> 1]

BoxDefinition ==
    [column_requirements |->
        << Req("column", TRUE, <<"numeric">>),
           Req("groupby", FALSE, <<"categorical">>) >>,
     min_columns |-> 1]

HeatmapDefinition ==
    [column_requirements |->
        << Req("x_axis", TRUE, <<"categorical", "numeric">>),
           Req("y_axis", TRUE, <<"categorical", "numeric">>),
           Req("values", FALSE, <<"numeric">>) >>,
     min_columns |-> 2]

AreaDefinition ==
    [column_requirements |->
        << Req("x_axis", TRUE, <<"numeric", "temporal">>),
           Req("y_axis", TRUE, <<"numeric">>),
           Req("color", FALSE, <<"categorical">>) >>,
     min_columns |-> 2]

chart_definitions ==
    [k \in ChartType |->
        CASE k = "bar" -> BarDefinition
          [] k = "line" -> LineDefinition
          [] k = "scatter" -> ScatterDefinition
          [] k = "pie" -> PieDefinition
          [] k = "histogram" -> HistogramDefinition
          [] k = "box" -> BoxDefinition
          [] k = "heatmap" -> HeatmapDefinition
          [] k = "area" -> AreaDefinition]

\* dict.get: None for a key with no definition
NoDefinition == [none |-> TRUE]

\* a lookup that falls back to the first definition for an unknown kind
get_chart_definition_Fallback(chart_type) ==
    IF chart_type \in DOMAIN chart_definitions
    THEN chart_definitions[chart_type]
    ELSE chart_definitions["bar"]

get_chart_definition(chart_type) ==
    IF chart_type \in DOMAIN chart_definitions
    THEN chart_definitions[chart_type]
    ELSE NoDefinition

(***************************************************************************)
(* ChartTypeRegistry.validate_chart_configuration                          *)
(***************************************************************************)
\* column_lookup = {col["name"]: col for col in available_columns}:
\* a later column of the same name replaces an earlier one
column_lookup_of(available_columns) ==
    [n \in { available_columns[i]["name"] : i \in 1..Len(available_columns) } |->
        available_columns[
            CHOOSE i \in 1..Len(available_columns) :
                /\ available_columns[i]["name"] = n
                /\ \A j \in 1..Len(available_columns) :
                       available_columns[j]["name"] = n => j <= i]]

\* truthiness of column_mappings.get(key): neither None nor ""
Mapped(column_mappings, key) ==
    key \in DOMAIN column_mappings /\ column_mappings[key] # ""

\* the requirement check with a required role counted as given whenever its
\* key is present, and the column's category never compared
CheckRequirement_KeyPresence(validation_result, req, column_mappings, column_lookup) ==
    IF req.required /\ req.name \notin DOMAIN column_mappings
    THEN [validation_result EXCEPT
            !.missing_required = Append(@, req.name),
            !.errors = Append(@, [error |-> "not specified", requirement |-> req.name])]
    ELSE validation_result

\* one iteration of `for req in definition.column_requirements`
CheckRequirement(validation_result, req, column_mappings, column_lookup) ==
    IF req.required /\ ~Mapped(column_mappings, req.name)
    THEN [validation_result EXCEPT
            !.missing_required = Append(@, req.name),
            !.errors = Append(@, [error |-> "not specified", requirement |-> req.name])]
    ELSE IF Mapped(column_mappings, req.name)
             /\ column_mappings[req.name] \in DOMAIN column_lookup
    THEN LET mapped_column == column_mappings[req.name]
             column_info == column_lookup[mapped_column]
             column_type == _categorize_column_type(column_info["type"])
         IN  IF /\ ~(\E k \in 1..Len(req.data_types) : req.data_types[k] = "any")
                /\ ~(\E k \in 1..Len(req.data_types) : req.data_types[k] = column_type)
             THEN [validation_result EXCEPT
                     !.invalid_types =
                         Append(@, [requirement |-> req.name,
                                    expected |-> req.data_types,
                                    actual |-> column_type,
                                    column |-> mapped_column]),
                     !.errors =
                         Append(@, [error |-> "wrong type",
                                    requirement |-> req.name,
                                    column |-> mapped_column])]
             ELSE validation_result
    ELSE validation_result

RECURSIVE CheckRequirements(_, _, _, _, _)
CheckRequirements(validation_result, reqs, i, column_mappings, column_lookup) ==
    IF i > Len(reqs) THEN validation_result
    ELSE CheckRequirements(
             CheckRequirement(validation_result, reqs[i], column_mappings, column_lookup),
             reqs, i + 1, column_mappings, column_lookup)

\* provided_mappings = len([v for v in column_mappings.values() if v])
provided_mappings_of(column_mappings) ==
    Cardinality({ k \in DOMAIN column_mappings : column_mappings[k] # "" })

\* the minimum-columns check and the final `valid` assignment
CheckMinimumColumns(validation_result, definition, column_mappings) ==
    LET provided_mappings == provided_mappings_of(column_mappings)
        checked ==
            IF provided_mappings < definition.min_columns
            THEN [validation_result EXCEPT
                    !.errors = Append(@, [error |-> "too few columns",
                                          provided |-> provided_mappings])]
            ELSE validation_result
    IN  [checked EXCEPT !.valid = (Len(checked.errors) = 0)]

\* the call's outcome: raised is TRUE when an exception reaches the caller
validate_chart_configuration(chart_type, column_mappings, available_columns) ==
    LET definition == get_chart_definition(chart_type) IN
    IF definition = NoDefinition
    THEN [raised |-> FALSE,
          value |-> [valid |-> FALSE, error |-> "Unknown chart type"]]
    ELSE LET column_lookup == column_lookup_of(available_columns)
             validation_result ==
                 [valid |-> TRUE, errors |-> <<>>, warnings |-> <<>>,
                  missing_required |-> <<>>, invalid_types |-> <<>>]
             checked == CheckRequirements(validation_result,
                                          definition.column_requirements, 1,
                                          column_mappings, column_lookup)
         IN  [raised |-> FALSE,
              value |-> CheckMinimumColumns(checked, definition, column_mappings)]

(***************************************************************************)
(* Arguments of a validate_chart_configuration call                        *)
(***************************************************************************)
\* raw type labels of the profile columns (DESCRIBE output)
T_DOUBLE == <<"D","O","U","B","L","E">>
T_VARCHAR == <<"V","A","R","C","H","A","R">>
T_DATE == <<"D","A","T","E">>
RawTypes == {T_DOUBLE, T_VARCHAR, T_DATE}

\* a table's column names are distinct: the i-th column is ColumnNames[i]
ColumnNames == <<"a", "b", "c", "d", "e", "f", "g">>

ProfileOf(types) ==
    [i \in 1..Len(types) |-> [name |-> ColumnNames[i], type |-> types[i]]]

Profiles(maxLen) == { ProfileOf(t) : t \in SeqsOf(RawTypes, 0, maxLen) }

\* a chart kind that is no key of chart_definitions
UnknownKinds == {"treemap"}

\* mapped column names: empty, two that a profile can hold, one it never holds
MapVals == {"", "a", "b", "zz"}

RoleNames(kind) ==
    IF kind \in ChartType
    THEN { chart_definitions[kind].column_requirements[i].name :
              i \in 1..Len(chart_definitions[kind].column_requirements) }
    ELSE {"x_axis"}

\* mappings over the kind's roles, with or without one key that is no role
Mappings(kind) ==
    { m \in UNION { [D -> MapVals] : D \in SUBSET (RoleNames(kind) \cup {"extra"}) } :
         "extra" \in DOMAIN m => m["extra"] = "a" }

ValidateCall(k, m, p) ==
    [op |-> "validate", chart_type |-> k, column_mappings |-> m,
     available_columns |-> p]

InitValidate ==
    /\ \E k \in ChartType \cup UnknownKinds :
           \E m \in Mappings(k) :
               \E p \in Profiles(MaxProfile) : call = ValidateCall(k, m, p)
    /\ result = Pending
    /\ HandlerConstructed

Validate ==
    /\ call.op = "validate"
    /\ result = Pending
    /\ result' = validate_chart_configuration(call.chart_type, call.column_mappings,
                                              call.available_columns)
    /\ UNCHANGED <<call, active_requests, db_manager>>

NextValidate == Validate

SpecValidate == InitValidate /\ [][NextValidate]_vars

(***************************************************************************)
(* ChartTypeRegistry.suggest_chart_types                                   *)
(***************************************************************************)
\* column_types: category -> names of the columns of that category, in
\* profile order; a category with no column is no key
column_types_of(available_columns) ==
    LET cat(i) == _categorize_column_type(available_columns[i]["type"]) IN
    [c \in { cat(i) : i \in 1..Len(available_columns) } |->
        LET idx == { i \in 1..Len(available_columns) : cat(i) = c }
        IN  [j \in 1..Cardinality(idx) |->
                available_columns[
                    CHOOSE i \in idx : Cardinality({ k \in idx : k < i }) = j - 1
                ]["name"]]]

\* len(column_types.get(category, []))
CountOf(column_types, category) ==
    IF category \in DOMAIN column_types THEN Len(column_types[category]) ELSE 0

\* the inner loop `for req_type in req.data_types`, from index k with the
\* count so far
RECURSIVE available_for_req_from(_, _, _, _, _)
available_for_req_from(data_types, k, sofar, column_types, available_columns) ==
    IF k > Len(data_types) THEN sofar
    ELSE IF data_types[k] = "any" THEN Len(available_columns)
    ELSE available_for_req_from(data_types, k + 1,
                                sofar + CountOf(column_types, data_types[k]),
                                column_types, available_columns)

\* the score cap of one requirement
CapContribution == 3

\* the loop `for req in definition.column_requirements` of the scorer, from
\* index i: can_satisfy and score when the loop ends or breaks
RECURSIVE requirement_score_from(_, _, _, _, _)
requirement_score_from(reqs, i, score, column_types, available_columns) ==
    IF i > Len(reqs) THEN [can_satisfy |-> TRUE, score |-> score]
    ELSE IF reqs[i].required
    THEN LET available_for_req ==
                 available_for_req_from(reqs[i].data_types, 1, 0,
                                        column_types, available_columns)
         IN  IF available_for_req = 0
             THEN [can_satisfy |-> FALSE, score |-> score]
             ELSE requirement_score_from(reqs, i + 1,
                                         score + Min(available_for_req, CapContribution),
                                         column_types, available_columns)
    ELSE requirement_score_from(reqs, i + 1, score, column_types, available_columns)

\* the requirement loop with optional roles scored like required ones
requirement_score_AllRoles(definition, column_types, available_columns) ==
    requirement_score_from(
        [i \in 1..Len(definition.column_requirements) |->
            [definition.column_requirements[i] EXCEPT !.required = TRUE]],
        1, 0, column_types, available_columns)

requirement_score(definition, column_types, available_columns) ==
    requirement_score_from(definition.column_requirements, 1, 0,
                           column_types, available_columns)

\* the bonus points with Bar and Pie rewarded for time+numeric profiles
bonus_parts_TimeNumeric(chart_type, numeric_count, categorical_count, temporal_count) ==
    (IF chart_type = "scatter" /\ numeric_count >= 2
     THEN << [points |-> 2, reason |-> "relationships"] >> ELSE <<>>)
    \o (IF chart_type = "line" /\ temporal_count > 0 /\ numeric_count > 0
        THEN << [points |-> 3, reason |-> "time-based trends"] >> ELSE <<>>)
    \o (IF chart_type = "bar" /\ temporal_count > 0 /\ numeric_count > 0
        THEN << [points |-> 2, reason |-> "comparing categories"] >> ELSE <<>>)
    \o (IF chart_type = "pie" /\ temporal_count > 0 /\ numeric_count > 0
        THEN << [points |-> 1, reason |-> "proportions"] >> ELSE <<>>)
    \o (IF chart_type = "histogram" /\ numeric_count > 0
        THEN << [points |-> 2, reason |-> "distribution"] >> ELSE <<>>)

\* the bonus points with the Line condition on temporal_count inverted
bonus_parts_LineWithoutTime(chart_type, numeric_count, categorical_count, temporal_count) ==
    (IF chart_type = "scatter" /\ numeric_count >= 2
     THEN << [points |-> 2, reason |-> "relationships"] >> ELSE <<>>)
    \o (IF chart_type = "line" /\ temporal_count = 0 /\ numeric_count > 0
        THEN << [points |-> 3, reason |-> "time-based trends"] >> ELSE <<>>)
    \o (IF chart_type = "bar" /\ categorical_count > 0 /\ numeric_count > 0
        THEN << [points |-> 2, reason |-> "comparing categories"] >> ELSE <<>>)
    \o (IF chart_type = "pie" /\ categorical_count > 0 /\ numeric_count > 0
        THEN << [points |-> 1, reason |-> "proportions"] >> ELSE <<>>)
    \o (IF chart_type = "histogram" /\ numeric_count > 0
        THEN << [points |-> 2, reason |-> "distribution"] >> ELSE <<>>)

\* the bonus points with the points of Line and Pie exchanged
bonus_parts_BarOverLine(chart_type, numeric_count, categorical_count, temporal_count) ==
    (IF chart_type = "scatter" /\ numeric_count >= 2
     THEN << [points |-> 2, reason |-> "relationships"] >> ELSE <<>>)
    \o (IF chart_type = "line" /\ temporal_count > 0 /\ numeric_count > 0
        THEN << [points |-> 2, reason |-> "time-based trends"] >> ELSE <<>>)
    \o (IF chart_type = "bar" /\ categorical_count > 0 /\ numeric_count > 0
        THEN << [points |-> 3, reason |-> "comparing categories"] >> ELSE <<>>)
    \o (IF chart_type = "pie" /\ categorical_count > 0 /\ numeric_count > 0
        THEN << [points |-> 1, reason |-> "proportions"] >> ELSE <<>>)
    \o (IF chart_type = "histogram" /\ numeric_count > 0
        THEN << [points |-> 2, reason |-> "distribution"] >> ELSE <<>>)

bonus_parts_PieOverLine(chart_type, numeric_count, categorical_count, temporal_count) ==
    (IF chart_type = "scatter" /\ numeric_count >= 2
     THEN << [points |-> 2, reason |-> "relationships"] >> ELSE <<>>)
    \o (IF chart_type = "line" /\ temporal_count > 0 /\ numeric_count > 0
        THEN << [points |-> 1, reason |-> "time-based trends"] >> ELSE <<>>)
    \o (IF chart_type = "bar" /\ categorical_count > 0 /\ numeric_count > 0
        THEN << [points |-> 2, reason |-> "comparing categories"] >> ELSE <<>>)
    \o (IF chart_type = "pie" /\ categorical_count > 0 /\ numeric_count > 0
        THEN << [points |-> 3, reason |-> "proportions"] >> ELSE <<>>)
    \o (IF chart_type = "histogram" /\ numeric_count > 0
        THEN << [points |-> 2, reason |-> "distribution"] >> ELSE <<>>)

\* "Bonus points for good fits": the reason_parts the chart kind collects,
\* each with the points it adds
bonus_parts(chart_type, numeric_count, categorical_count, temporal_count) ==
    (IF chart_type = "scatter" /\ numeric_count >= 2
     THEN << [points |-> 2, reason |-> "relationships"] >> ELSE <<>>)
    \o (IF chart_type = "line" /\ temporal_count > 0 /\ numeric_count > 0
        THEN << [points |-> 3, reason |-> "time-based trends"] >> ELSE <<>>)
    \o (IF chart_type = "bar" /\ categorical_count > 0 /\ numeric_count > 0
        THEN << [points |-> 2, reason |-> "comparing categories"] >> ELSE <<>>)
    \o (IF chart_type = "pie" /\ categorical_count > 0 /\ numeric_count > 0
        THEN << [points |-> 1, reason |-> "proportions"] >> ELSE <<>>)
    \o (IF chart_type = "histogram" /\ numeric_count > 0
        THEN << [points |-> 2, reason |-> "distribution"] >> ELSE <<>>)

RECURSIVE SumPoints(_)
SumPoints(parts) ==
    IF parts = <<>> THEN 0 ELSE Head(parts).points + SumPoints(Tail(parts))

\* the body of `for chart_type, definition in self.chart_definitions.items()`:
\* the entries (none or one) the kind appends to suggestions
suggestion_for(chart_type, available_columns) ==
    LET definition == chart_definitions[chart_type]
        column_types == column_types_of(available_columns)
        numeric_count == CountOf(column_types, "numeric")
        categorical_count == CountOf(column_types, "categorical")
        temporal_count == CountOf(column_types, "temporal")
        base == requirement_score(definition, column_types, available_columns)
        parts == bonus_parts(chart_type, numeric_count, categorical_count,
                             temporal_count)
        score == base.score + SumPoints(parts)
    IN  IF ~base.can_satisfy THEN <<>>
        ELSE IF score > 0
        THEN << [chart_type |-> chart_type, score |-> score,
                 reason |-> [k \in 1..Len(parts) |-> parts[k].reason]] >>
        ELSE <<>>

\* the suggestions list when the loop over the catalog ends
RECURSIVE suggestions_from(_, _)
suggestions_from(i, available_columns) ==
    IF i > Len(ChartOrder) THEN <<>>
    ELSE suggestion_for(ChartOrder[i], available_columns)
             \o suggestions_from(i + 1, available_columns)

\* insertion of x into a list sorted by descending score, after every entry
\* whose score is not smaller (list.sort is stable, also with reverse=True)
RECURSIVE InsertByScore(_, _)
InsertByScore(sorted, x) ==
    IF sorted = <<>> THEN <<x>>
    ELSE IF Head(sorted).score >= x.score
    THEN <<Head(sorted)>> \o InsertByScore(Tail(sorted), x)
    ELSE <<x>> \o sorted

RECURSIVE sort_from(_, _, _)
sort_from(suggestions, i, sorted) ==
    IF i > Len(suggestions) THEN sorted
    ELSE sort_from(suggestions, i + 1, InsertByScore(sorted, suggestions[i]))

\* a sort by ascending score (reverse=True left out)
sort_by_score_Ascending(suggestions) ==
    LET RECURSIVE Rev(_)
        Rev(s) == IF s = <<>> THEN <<>> ELSE Rev(Tail(s)) \o <<Head(s)>>
    IN  Rev(sort_from(suggestions, 1, <<>>))

\* suggestions.sort(key=lambda x: x["score"], reverse=True)
sort_by_score(suggestions) == sort_from(suggestions, 1, <<>>)

\* number of suggestions returned
TopSuggestions == 5

\* the value returned, and the suggestions list as it was before the sort
suggest_chart_types(available_columns) ==
    LET suggestions == suggestions_from(1, available_columns)
        sorted == sort_by_score(suggestions)
    IN  [raised |-> FALSE,
         value |-> SubSeq(sorted, 1, Min(TopSuggestions, Len(sorted))),
         suggestions |-> suggestions]

SuggestCall(p) == [op |-> "suggest", available_columns |-> p]

\* the profile of a sales table: a measure, a category and a date
SalesProfile ==
    << [name |-> "sales", type |-> T_DOUBLE],
       [name |-> "region", type |-> T_VARCHAR],
       [name |-> "date", type |-> T_DATE] >>

InitSuggest ==
    /\ \E p \in Profiles(MaxSuggestProfile) \cup {SalesProfile} : call = SuggestCall(p)
    /\ result = Pending
    /\ HandlerConstructed

Suggest ==
    /\ call.op = "suggest"
    /\ result = Pending
    /\ result' = suggest_chart_types(call.available_columns)
    /\ UNCHANGED <<call, active_requests, db_manager>>

NextSuggest == Suggest

SpecSuggest == InitSuggest /\ [][NextSuggest]_vars

(***************************************************************************)
(* QueryBuilder: text helpers                                              *)
(***************************************************************************)
\* str.join
RECURSIVE Join(_, _)
Join(sep, parts) ==
    IF parts = <<>> THEN <<>>
    ELSE IF Len(parts) = 1 THEN parts[1]
    ELSE parts[1] \o sep \o Join(sep, Tail(parts))

\* str.replace('"', '""')
RECURSIVE EscapeQuotes(_)
EscapeQuotes(text) ==
    IF text = <<>> THEN <<>>
    ELSE (IF Head(text) = "\"" THEN <<"\"", "\"">> ELSE <<Head(text)>>)
             \o EscapeQuotes(Tail(text))

\* an exception propagating to the caller / a returned value
Raise(error) == [raised |-> TRUE, error |-> error]
Return(value) == [raised |-> FALSE, value |-> value]

(***************************************************************************)
(* QueryBuilder._sanitize_column_name and _sanitize_table_name             *)
(***************************************************************************)
_sanitize_column_name(column_name) ==
    LET sanitized == EscapeQuotes(column_name)
    IN  <<"\"">> \o sanitized \o <<"\"">>

Letters ==
    {"a","b","c","d","e","f","g","h","i","j","k","l","m","n","o","p","q","r",
     "s","t","u","v","w","x","y","z",
     "A","B","C","D","E","F","G","H","I","J","K","L","M","N","O","P","Q","R",
     "S","T","U","V","W","X","Y","Z"}

Digits == {"0","1","2","3","4","5","6","7","8","9"}

\* re.match(r"^[a-zA-Z_][a-zA-Z0-9_]*$", s): without re.MULTILINE `$` matches
\* at the end of the string and also just before a newline that ends it
ReMatchIdentifier(s) ==
    /\ Len(s) >= 1
    /\ s[1] \in Letters \cup {"_"}
    /\ \E n \in 1..Len(s) :
           /\ \A i \in 2..n : s[i] \in Letters \cup Digits \cup {"_"}
           /\ \/ n = Len(s)
              \/ n = Len(s) - 1 /\ s[Len(s)] = "\n"

_sanitize_table_name(table_name) ==
    IF ~ReMatchIdentifier(table_name)
    THEN Raise("ValueError")
    ELSE Return(table_name)

(***************************************************************************)
(* QueryBuilder._build_filter_condition                                    *)
(***************************************************************************)
safe_operators ==
    {"=", "!=", ">", "<", ">=", "<=", "IN", "LIKE", "NOT IN", "NOT LIKE"}

\* f"{value}": str() of a string, an int (kept as its digits) or a list of
\* strings (its repr)
FormatValue(value) ==
    IF value.kind = "list"
    THEN <<"[">>
         \o Join(<<", ">>, [i \in 1..Len(value.items) |->
                               <<"'">> \o value.items[i] \o <<"'">>])
         \o <<"]">>
    ELSE value.text

\* the filter condition without the operator allow-list
_build_filter_condition_AnyOperator(filter_obj) ==
    _sanitize_column_name(filter_obj.column)
        \o <<" ", filter_obj.operator, " ">> \o FormatValue(filter_obj.value)

\* "" (the empty text) for a filter that is skipped
_build_filter_condition(filter_obj) ==
    IF filter_obj.operator \notin safe_operators
    THEN <<>>
    ELSE LET safe_column == _sanitize_column_name(filter_obj.column) IN
         IF filter_obj.operator \in {"IN", "NOT IN"}
         THEN IF filter_obj.value.kind = "list"
              THEN LET values ==
                           Join(<<", ">>,
                                [i \in 1..Len(filter_obj.value.items) |->
                                    <<"'">> \o filter_obj.value.items[i] \o <<"'">>])
                   IN  safe_column \o <<" ", filter_obj.operator, " ", "(">>
                           \o values \o <<")">>
              ELSE safe_column \o <<" ", filter_obj.operator, " ", "('">>
                       \o FormatValue(filter_obj.value) \o <<"')">>
         ELSE IF filter_obj.operator \in {"LIKE", "NOT LIKE"}
         THEN safe_column \o <<" ", filter_obj.operator, " ", "'">>
                  \o FormatValue(filter_obj.value) \o <<"'">>
         ELSE IF filter_obj.value.kind = "str"
         THEN safe_column \o <<" ", filter_obj.operator, " ", "'">>
                  \o FormatValue(filter_obj.value) \o <<"'">>
         ELSE safe_column \o <<" ", filter_obj.operator, " ">>
                  \o FormatValue(filter_obj.value)

\* conditions = [c for each filter, in order, if c is not ""]
RECURSIVE conditions_of(_)
conditions_of(filters) ==
    IF filters = <<>> THEN <<>>
    ELSE LET condition == _build_filter_condition(Head(filters))
         IN  (IF condition # <<>> THEN <<condition>> ELSE <<>>)
                 \o conditions_of(Tail(filters))

(***************************************************************************)
(* QueryBuilder.build_visualization_query                                  *)
(***************************************************************************)
safe_functions ==
    {"COUNT", "SUM", "AVG", "MIN", "MAX", "MEDIAN", "STDDEV", "VARIANCE",
     "DISTINCT", "ROUND", "UPPER", "LOWER"}

\* str.upper / str.lower of the aggregation function names of the model
FunctionNames == {"SUM", "sum", "Avg", "DROP"}

function_upper(function) ==
    CASE function \in {"SUM", "sum"} -> "SUM"
      [] function = "Avg" -> "AVG"
      [] function = "DROP" -> "DROP"

function_lower(function) ==
    CASE function \in {"SUM", "sum"} -> "sum"
      [] function = "Avg" -> "avg"
      [] function = "DROP" -> "drop"

\* "Add aggregations": the select parts of config.aggregations, a dict kept
\* as the sequence of its (column, function) items
RECURSIVE aggregation_parts(_)
aggregation_parts(aggregations) ==
    IF aggregations = <<>> THEN <<>>
    ELSE LET column == Head(aggregations)[1]
             function == Head(aggregations)[2]
         IN  (IF function_upper(function) \in safe_functions
              THEN << <<function_upper(function), "(">>
                          \o _sanitize_column_name(column)
                          \o <<") as ", function_lower(function), "_">>
                          \o column >>
              ELSE <<>>)
                 \o aggregation_parts(Tail(aggregations))

\* [f" {f.logical_operator} {cond}" for f, cond in zip(filters[1:], conditions[1:])]
zip_logical(filters, conditions) ==
    [i \in 1..Min(Len(filters) - 1, Len(conditions) - 1) |->
        <<" ", filters[i + 1].logical_operator, " ">> \o conditions[i + 1]]

\* the WHERE clause ("" when there is none)
where_clause_of(filters) ==
    LET conditions == conditions_of(filters) IN
    IF filters = <<>> \/ conditions = <<>> THEN <<>>
    ELSE IF Len(conditions) = 1 THEN <<"WHERE ">> \o conditions[1]
    ELSE <<"WHERE ">>
             \o Join(<<" ">> \o conditions[1] \o <<" ">>,
                     zip_logical(filters, conditions))

sanitize_all(columns) ==
    [i \in 1..Len(columns) |-> _sanitize_column_name(columns[i])]

\* config: table_name, columns, filters, group_by, order_by (sequences, empty
\* for None), limit (0 for None), aggregations
build_visualization_query(config) ==
    LET select_parts ==
            (IF config.columns # <<>> THEN sanitize_all(config.columns)
             ELSE << <<"*">> >>)
                \o aggregation_parts(config.aggregations)
        select_clause == <<"SELECT ">> \o Join(<<", ">>, select_parts)
        table == _sanitize_table_name(config.table_name)
        where_clause == where_clause_of(config.filters)
        group_by_clause ==
            IF config.group_by # <<>>
            THEN <<"GROUP BY ">> \o Join(<<", ">>, sanitize_all(config.group_by))
            ELSE <<>>
        order_by_clause ==
            IF config.order_by # <<>>
            THEN <<"ORDER BY ">> \o Join(<<", ">>, sanitize_all(config.order_by))
            ELSE <<>>
        limit_clause ==
            IF config.limit > 0 THEN <<"LIMIT ", ToString(config.limit)>> ELSE <<>>
    IN  IF table.raised THEN table
        ELSE LET from_clause == <<"FROM ">> \o table.value
                 query_parts ==
                     <<select_clause, from_clause>>
                         \o (IF where_clause # <<>> THEN <<where_clause>> ELSE <<>>)
                         \o (IF group_by_clause # <<>> THEN <<group_by_clause>> ELSE <<>>)
                         \o (IF order_by_clause # <<>> THEN <<order_by_clause>> ELSE <<>>)
                         \o (IF limit_clause # <<>> THEN <<limit_clause>> ELSE <<>>)
             IN  Return(Join(<<" ">>, query_parts))

QueryConfig(table_name, columns, filters, group_by, order_by, limit, aggregations) ==
    [table_name |-> table_name, columns |-> columns, filters |-> filters,
     group_by |-> group_by, order_by |-> order_by, limit |-> limit,
     aggregations |-> aggregations]

(***************************************************************************)
(* QueryBuilder: the per-chart builders.  An optional column argument that *)
(* is None is the empty text (`if color_column:` treats both alike).       *)
(***************************************************************************)
build_bar_chart_query(table_name, x_column, y_column, color_column, filters) ==
    LET total == <<"SUM(">> \o y_column \o <<") as total_">> \o y_column
        columns == IF color_column # <<>>
                   THEN <<x_column, color_column, total>>
                   ELSE <<x_column, total>>
        group_by == IF color_column # <<>>
                    THEN <<x_column, color_column>>
                    ELSE <<x_column>>
    IN  build_visualization_query(
            QueryConfig(table_name, columns, filters, group_by,
                        << <<"total_">> \o y_column \o <<" DESC">> >>, 0, <<>>))

build_line_chart_query(table_name, x_column, y_column, color_column, filters) ==
    LET columns == <<x_column, y_column>>
                       \o (IF color_column # <<>> THEN <<color_column>> ELSE <<>>)
        group_by == <<x_column>>
                       \o (IF color_column # <<>> THEN <<color_column>> ELSE <<>>)
    IN  build_visualization_query(
            QueryConfig(table_name, columns, filters, group_by, <<x_column>>, 0, <<>>))

build_scatter_plot_query(table_name, x_column, y_column, color_column, size_column, filters, limit) ==
    LET columns == <<x_column, y_column>>
                       \o (IF color_column # <<>> THEN <<color_column>> ELSE <<>>)
                       \o (IF size_column # <<>> THEN <<size_column>> ELSE <<>>)
    IN  build_visualization_query(
            QueryConfig(table_name, columns, filters, <<>>, <<>>, limit, <<>>))

build_pie_chart_query(table_name, category_column, value_column, filters) ==
    build_visualization_query(
        QueryConfig(table_name, <<category_column>>, filters, <<category_column>>,
                    << <<"sum_">> \o value_column \o <<" DESC">> >>, 0,
                    << <<value_column, "SUM">> >>))

\* the f-string template; runs of blanks and newlines of the template are
\* kept as one blank inside the constant tokens
build_histogram_query(table_name, column, bins) ==
    LET col == _sanitize_column_name(column)
        table == _sanitize_table_name(table_name)
        width == <<"((stats.max_val - stats.min_val) / ", ToString(bins), ")">>
        bin_number == <<"FLOOR((">> \o col \o <<" - stats.min_val) / ">> \o width
                          \o <<")">>
    IN  IF table.raised THEN table
        ELSE Return(
               <<" WITH stats AS ( SELECT MIN(">> \o col \o <<") as min_val, MAX(">>
                 \o col \o <<") as max_val FROM ">> \o table.value \o <<" WHERE ">>
                 \o col \o <<" IS NOT NULL ), binned_data AS ( SELECT ">>
                 \o bin_number \o <<" as bin_number, stats.min_val + (">>
                 \o bin_number \o <<" * ">> \o width
                 \o <<") as bin_start, COUNT(*) as frequency FROM ">>
                 \o table.value \o <<", stats WHERE ">> \o col
                 \o <<" IS NOT NULL GROUP BY bin_number, bin_start, stats.min_val, stats.max_val ORDER BY bin_number ) SELECT bin_start, bin_start + ((SELECT MAX(bin_start) - MIN(bin_start) FROM binned_data) / ",
                      ToString(bins), ") as bin_end, frequency FROM binned_data ">>)

\* the CORR terms of the pairs (i, j) with i <= j, row by row
correlation_terms(columns) ==
    LET term(i, j) ==
            <<"CORR(">> \o _sanitize_column_name(columns[i]) \o <<", ">>
                \o _sanitize_column_name(columns[j]) \o <<") as corr_">>
                \o columns[i] \o <<"_">> \o columns[j]
        RECURSIVE row(_, _)
        row(i, j) == IF j > Len(columns) THEN <<>>
                     ELSE <<term(i, j)>> \o row(i, j + 1)
        RECURSIVE rows(_)
        rows(i) == IF i > Len(columns) THEN <<>> ELSE row(i, i) \o rows(i + 1)
    IN  rows(1)

\* " WHERE c1 AND c2 ..." of the correlation and summary builders
and_where(filters) ==
    IF filters # <<>> /\ conditions_of(filters) # <<>>
    THEN <<" WHERE ">> \o Join(<<" AND ">>, conditions_of(filters))
    ELSE <<>>

build_correlation_query(table_name, columns, filters) ==
    LET table == _sanitize_table_name(table_name) IN
    IF table.raised THEN table
    ELSE Return(<<"SELECT ">> \o Join(<<", ">>, correlation_terms(columns))
                    \o <<" FROM ">> \o table.value \o and_where(filters))

\* one SELECT of the UNION ALL; the table name is sanitized inside the loop
\* over the columns, so it is never looked at when there is no column
summary_part(table_value, col, filters) ==
    LET safe_col == _sanitize_column_name(col)
        select_parts ==
            << <<"'">> \o col \o <<"' as column_name">>,
               <<"COUNT(">> \o safe_col \o <<") as count">>,
               <<"COUNT(DISTINCT ">> \o safe_col \o <<") as distinct_count">>,
               <<"MIN(">> \o safe_col \o <<") as min_value">>,
               <<"MAX(">> \o safe_col \o <<") as max_value">>,
               <<"AVG(">> \o safe_col \o <<") as mean_value">>,
               <<"MEDIAN(">> \o safe_col \o <<") as median_value">>,
               <<"STDDEV(">> \o safe_col \o <<") as std_value">> >>
    IN  <<"SELECT ">> \o Join(<<", ">>, select_parts) \o <<" FROM ">> \o table_value
            \o and_where(filters)

build_summary_stats_query(table_name, columns, filters) ==
    LET table == _sanitize_table_name(table_name) IN
    IF columns = <<>> THEN Return(<<>>)
    ELSE IF table.raised THEN table
    ELSE Return(Join(<<" UNION ALL ">>,
                     [i \in 1..Len(columns) |->
                         summary_part(table.value, columns[i], filters)]))

get_sample_data_query(table_name, limit) ==
    LET table == _sanitize_table_name(table_name) IN
    IF table.raised THEN table
    ELSE Return(<<"SELECT * FROM ">> \o table.value \o <<" LIMIT ", ToString(limit)>>)

get_data_types_query(table_name) ==
    LET table == _sanitize_table_name(table_name) IN
    IF table.raised THEN table
    ELSE Return(<<"DESCRIBE ">> \o table.value)

\* default arguments
DefaultScatterLimit == 10000
DefaultBins == 30
DefaultSampleLimit == 1000

(***************************************************************************)
(* Arguments of the QueryBuilder calls                                     *)
(***************************************************************************)
T_users == <<"u","s","e","r","s">>
T_users_drop ==
    <<"u","s","e","r","s",";"," ","D","R","O","P"," ","T","A","B","L","E"," ",
      "u","s","e","r","s">>

TableChars == {"t", "7", "_", ";", "\n"}

Tables(maxLen) == SeqsOf(TableChars, 0, maxLen) \cup {T_users, T_users_drop}

\* an accepted and a rejected table name
SampleTables == { <<"t">>, <<";">> }

\* characters of caller-supplied column names; none occurs in an accepted
\* table name or in a filter value of the model
ColChars == {"x", "\"", ";"}

QColumns(maxLen) == SeqsOf(ColChars, 1, maxLen)

DefaultColumn == <<"x">>

FilterOperators == {"=", "IN", "LIKE", "REGEXP"}

FilterValues ==
    { [kind |-> "str", text |-> <<"v">>],
      [kind |-> "int", text |-> <<"5">>],
      [kind |-> "list", items |-> << <<"v">>, <<"w">> >>] }

\* QueryFilter(column, operator, value, logical_operator)
QueryFilters ==
    { [column |-> DefaultColumn, operator |-> o, value |-> v, logical_operator |-> l] :
         o \in FilterOperators, v \in FilterValues, l \in {"AND", "OR"} }

QueryOps ==
    {"build_visualization_query", "build_bar_chart_query", "build_line_chart_query",
     "build_scatter_plot_query", "build_pie_chart_query", "build_histogram_query",
     "build_correlation_query", "build_summary_stats_query",
     "get_sample_data_query", "get_data_types_query"}

\* column-list lengths an operation takes: (x, y[, color[, size]]) and so on
ColumnArity(op) ==
    CASE op = "build_visualization_query" -> 0..1
      [] op \in {"build_bar_chart_query", "build_line_chart_query"} -> 2..3
      [] op = "build_scatter_plot_query" -> 2..4
      [] op = "build_pie_chart_query" -> 2..2
      [] op = "build_histogram_query" -> 1..1
      [] op \in {"build_correlation_query", "build_summary_stats_query"} -> 0..2
      [] OTHER -> 0..0

TakesFilters(op) == op \notin {"get_sample_data_query", "get_data_types_query"}

QueryArgs(table_name, columns, filters, aggregations, grouped, limit) ==
    [table_name |-> table_name, columns |-> columns, filters |-> filters,
     aggregations |-> aggregations, grouped |-> grouped, limit |-> limit]

\* plain column lists: the fewest columns the operation takes, all of them
\* the default column; none and one for the builders that take a list
DefaultColumns(op) ==
    IF op \in {"build_correlation_query", "build_summary_stats_query"}
    THEN { <<>>, <<DefaultColumn>> }
    ELSE { [i \in 1..n |-> DefaultColumn] :
              n \in { m \in ColumnArity(op) : \A k \in ColumnArity(op) : m <= k } }

\* every table name, plain columns, no filter
TableFamily(op) ==
    { QueryArgs(t, c, <<>>, <<>>, FALSE, 0) :
         t \in Tables(MaxTableLen), c \in DefaultColumns(op) }

\* every column list, an accepted and a rejected table name, no filter; the
\* generic builder also gets aggregations, GROUP BY / ORDER BY and a limit
ColumnFamily(op) ==
    IF op = "build_visualization_query"
    THEN { QueryArgs(t, c, <<>>, a, g, l) :
              t \in SampleTables,
              c \in SeqsOf(QColumns(MaxColLen), 0, 1),
              a \in {<<>>} \cup { << <<col, f>> >> :
                                     col \in QColumns(MaxColLen), f \in FunctionNames },
              g \in BOOLEAN, l \in {0, 5} }
    ELSE { QueryArgs(t, c, <<>>, <<>>, FALSE, 0) :
              t \in SampleTables,
              c \in UNION { [1..n -> QColumns(MaxColLen)] : n \in ColumnArity(op) } }

\* every filter list, plain columns, an accepted and a rejected table name
FilterFamily(op) ==
    IF TakesFilters(op)
    THEN { QueryArgs(t, c, f, <<>>, FALSE, 0) :
              t \in SampleTables, c \in DefaultColumns(op),
              f \in SeqsOf(QueryFilters, 1, MaxFilters) }
    ELSE {}

QueryCall(op, args) == [op |-> op, args |-> args]

InitQuery ==
    /\ \E op \in QueryOps :
           \E args \in TableFamily(op) \cup ColumnFamily(op) \cup FilterFamily(op) :
               call = QueryCall(op, args)
    /\ result = Pending
    /\ HandlerConstructed

\* the i-th column argument, None (the empty text) when it is not given
Arg(columns, i) == IF i <= Len(columns) THEN columns[i] ELSE <<>>

\* the call of the operation `op` with the arguments `args`
QueryResult(op, args) ==
    CASE op = "build_visualization_query" ->
           build_visualization_query(
               QueryConfig(args.table_name, args.columns, args.filters,
                           IF args.grouped THEN args.columns ELSE <<>>,
                           IF args.grouped THEN args.columns ELSE <<>>,
                           args.limit, args.aggregations))
      [] op = "build_bar_chart_query" ->
           build_bar_chart_query(args.table_name, Arg(args.columns, 1),
                                 Arg(args.columns, 2), Arg(args.columns, 3),
                                 args.filters)
      [] op = "build_line_chart_query" ->
           build_line_chart_query(args.table_name, Arg(args.columns, 1),
                                  Arg(args.columns, 2), Arg(args.columns, 3),
                                  args.filters)
      [] op = "build_scatter_plot_query" ->
           build_scatter_plot_query(args.table_name, Arg(args.columns, 1),
                                    Arg(args.columns, 2), Arg(args.columns, 3),
                                    Arg(args.columns, 4), args.filters,
                                    DefaultScatterLimit)
      [] op = "build_pie_chart_query" ->
           build_pie_chart_query(args.table_name, Arg(args.columns, 1),
                                 Arg(args.columns, 2), args.filters)
      [] op = "build_histogram_query" ->
           \* the filters argument of build_histogram_query is never read
           build_histogram_query(args.table_name, Arg(args.columns, 1), DefaultBins)
      [] op = "build_correlation_query" ->
           build_correlation_query(args.table_name, args.columns, args.filters)
      [] op = "build_summary_stats_query" ->
           build_summary_stats_query(args.table_name, args.columns, args.filters)
      [] op = "get_sample_data_query" ->
           get_sample_data_query(args.table_name, DefaultSampleLimit)
      [] op = "get_data_types_query" ->
           get_data_types_query(args.table_name)

\* one action per operation of QueryBuilder
BuildVisualizationQuery ==
    /\ call.op = "build_visualization_query"
    /\ result = Pending
    /\ result' = QueryResult("build_visualization_query", call.args)
    /\ UNCHANGED <<call, active_requests, db_manager>>

BuildBarChartQuery ==
    /\ call.op = "build_bar_chart_query"
    /\ result = Pending
    /\ result' = QueryResult("build_bar_chart_query", call.args)
    /\ UNCHANGED <<call, active_requests, db_manager>>

BuildLineChartQuery ==
    /\ call.op = "build_line_chart_query"
    /\ result = Pending
    /\ result' = QueryResult("build_line_chart_query", call.args)
    /\ UNCHANGED <<call, active_requests, db_manager>>

BuildScatterPlotQuery ==
    /\ call.op = "build_scatter_plot_query"
    /\ result = Pending
    /\ result' = QueryResult("build_scatter_plot_query", call.args)
    /\ UNCHANGED <<call, active_requests, db_manager>>

BuildPieChartQuery ==
    /\ call.op = "build_pie_chart_query"
    /\ result = Pending
    /\ result' = QueryResult("build_pie_chart_query", call.args)
    /\ UNCHANGED <<call, active_requests, db_manager>>

BuildHistogramQuery ==
    /\ call.op = "build_histogram_query"
    /\ result = Pending
    /\ result' = QueryResult("build_histogram_query", call.args)
    /\ UNCHANGED <<call, active_requests, db_manager>>

BuildCorrelationQuery ==
    /\ call.op = "build_correlation_query"
    /\ result = Pending
    /\ result' = QueryResult("build_correlation_query", call.args)
    /\ UNCHANGED <<call, active_requests, db_manager>>

BuildSummaryStatsQuery ==
    /\ call.op = "build_summary_stats_query"
    /\ result = Pending
    /\ result' = QueryResult("build_summary_stats_query", call.args)
    /\ UNCHANGED <<call, active_requests, db_manager>>

GetSampleDataQuery ==
    /\ call.op = "get_sample_data_query"
    /\ result = Pending
    /\ result' = QueryResult("get_sample_data_query", call.args)
    /\ UNCHANGED <<call, active_requests, db_manager>>

GetDataTypesQuery ==
    /\ call.op = "get_data_types_query"
    /\ result = Pending
    /\ result' = QueryResult("get_data_types_query", call.args)
    /\ UNCHANGED <<call, active_requests, db_manager>>

NextQuery ==
    \/ BuildVisualizationQuery
    \/ BuildBarChartQuery
    \/ BuildLineChartQuery
    \/ BuildScatterPlotQuery
    \/ BuildPieChartQuery
    \/ BuildHistogramQuery
    \/ BuildCorrelationQuery
    \/ BuildSummaryStatsQuery
    \/ GetSampleDataQuery
    \/ GetDataTypesQuery

SpecQuery == InitQuery /\ [][NextQuery]_vars

(***************************************************************************)
(* The rows the SQL of build_histogram_query computes over one column of a *)
(* table.  A column is a sequence of values, NULL among them; stats and    *)
(* binned_data are the two common table expressions of the query.  A       *)
(* quotient is kept exact, as numerator and denominator.                   *)
(***************************************************************************)
MaxRows == 4
MaxValue == 3
MaxBins == 3

\* a cell or a computed number: NULL, NaN or a number v
NULL == [kind |-> "null", v |-> 0]
NaN == [kind |-> "nan", v |-> 0]
Num(v) == [kind |-> "num", v |-> v]

\* a quotient num/den, NULL or NaN
Quotient(kind, num, den) == [kind |-> kind, num |-> num, den |-> den]

NonNull(values) == { i \in 1..Len(values) : values[i] # NULL }

\* SELECT MIN(col) as min_val, MAX(col) as max_val ... WHERE col IS NOT NULL:
\* one row, both NULL when no row qualifies
stats(values) ==
    IF NonNull(values) = {} THEN [min_val |-> NULL, max_val |-> NULL]
    ELSE [min_val |-> CHOOSE c \in { values[i] : i \in NonNull(values) } :
                          \A i \in NonNull(values) : c.v <= values[i].v,
          max_val |-> CHOOSE c \in { values[i] : i \in NonNull(values) } :
                          \A i \in NonNull(values) : c.v >= values[i].v]

\* the rows binned_data reads with the WHERE clause left out
rows_of_binned_data_WithNulls(values) == 1..Len(values)

\* FROM table, stats WHERE col IS NOT NULL
rows_of_binned_data(values) == NonNull(values)

\* FLOOR((col - min_val) / ((max_val - min_val) / bins)); the division by a
\* zero width gives what the database gives for it (zero_division)
bin_number(value, st, bins, zero_division) ==
    IF value = NULL \/ st.min_val = NULL THEN NULL
    ELSE IF st.max_val = st.min_val THEN zero_division
    ELSE Num(((value.v - st.min_val.v) * bins) \div (st.max_val.v - st.min_val.v))

\* min_val + bin_number * ((max_val - min_val) / bins)
bin_start(number, st, bins) ==
    IF number.kind # "num" THEN Quotient(number.kind, 0, 1)
    ELSE Quotient("num",
                  st.min_val.v * bins + number.v * (st.max_val.v - st.min_val.v),
                  bins)

\* GROUP BY bin_number, bin_start, min_val, max_val with COUNT(*): one row
\* per bin number that occurs
binned_data(values, bins, zero_division) ==
    LET st == stats(values)
        rows == rows_of_binned_data(values)
        number(i) == bin_number(values[i], st, bins, zero_division)
    IN  { [bin_number |-> n,
           bin_start |-> bin_start(n, st, bins),
           frequency |-> Cardinality({ i \in rows : number(i) = n })] :
             n \in { number(i) : i \in rows } }

\* SELECT bin_start, bin_start + ((SELECT MAX(bin_start) - MIN(bin_start)
\* FROM binned_data) / bins) as bin_end, frequency FROM binned_data
histogram_rows(values, bins, zero_division) ==
    LET data == binned_data(values, bins, zero_division)
        numbered == { r \in data : r.bin_number.kind = "num" }
        hi == CHOOSE r \in numbered :
                  \A q \in numbered : q.bin_number.v <= r.bin_number.v
        lo == CHOOSE r \in numbered :
                  \A q \in numbered : q.bin_number.v >= r.bin_number.v
    IN  { [bin_number |-> r.bin_number,
           bin_start |-> r.bin_start,
           bin_end |-> IF numbered # data THEN Quotient(r.bin_start.kind, 0, 1)
                       ELSE Quotient("num",
                                     r.bin_start.num * bins
                                         + (hi.bin_start.num - lo.bin_start.num),
                                     bins * bins),
           frequency |-> r.frequency] : r \in data }

\* what a division by zero gives: NULL, or NaN under IEEE floating point
ZeroDivisionOutcomes == {NULL, NaN}

ColumnValues == {NULL} \cup { Num(v) : v \in 0..MaxValue }

HistogramCall(values, bins) ==
    [op |-> "run_histogram_query", values |-> values, bins |-> bins]

InitHistogram ==
    /\ \E values \in SeqsOf(ColumnValues, 0, MaxRows) :
           \E bins \in 1..MaxBins : call = HistogramCall(values, bins)
    /\ result = Pending
    /\ HandlerConstructed

RunHistogramQuery ==
    /\ call.op = "run_histogram_query"
    /\ result = Pending
    /\ \E zero_division \in ZeroDivisionOutcomes :
           result' = Return(histogram_rows(call.values, call.bins, zero_division))
    /\ UNCHANGED <<call, active_requests, db_manager>>

NextHistogram == RunHistogramQuery

SpecHistogram == InitHistogram /\ [][NextHistogram]_vars

(***************************************************************************)
(* InsightsCalculator.  A DataFrame is a sequence of columns, each a name,  *)
(* a dtype and its cells (Num(v) or NULL, one per row); the cells of an     *)
(* object or datetime column are the ranks of its values.  A computed       *)
(* number is an exact quotient; skewness, kurtosis, standard deviation,     *)
(* variance and the p-value of a regression are irrational or transcendent  *)
(* in the data and are not part of a report of the model.                   *)
(***************************************************************************)
MaxInsightRows == 4
MaxCell == 2
MaxPairRows == 3
MaxRequested == 3

\* numerators of the small floats, and the distance from 1e6 of the large ones
MaxFormatNum == 12
MaxFormatOffset == 2

\* FormattingConfig.decimal_places, correlation_threshold (as a quotient),
\* TrendDetectionConfig.min_points, and the length of outliers.head(10)
decimal_places == 2
correlation_threshold == [num |-> 1, den |-> 2]
min_points == 5
OutlierHead == 10

InsightType ==
    {"max", "min", "mean", "median", "distinct_count", "total_count",
     "correlation", "trend", "outliers", "distribution"}

\* pd.api.types.is_numeric_dtype / is_datetime64_any_dtype
is_numeric_dtype(dtype) == dtype \in {"int64", "float64"}
is_datetime64_any_dtype(dtype) == dtype = "datetime64[ns]"

\* dict assignment d[k] = v
Put(d, k, v) == [x \in DOMAIN d \cup {k} |-> IF x = k THEN v ELSE d[x]]

EmptyDict == [x \in {} |-> 0]

\* df.columns, df[column] (column names of a frame are distinct)
columns_of(df) == { df[i].name : i \in 1..Len(df) }
column_of(df, name) == df[CHOOSE i \in 1..Len(df) : df[i].name = name]

\* Series.dropna(): the values of the cells that are not NULL, in row order
dropna(cells) ==
    LET NotNull(c) == c # NULL
        kept == SelectSeq(cells, NotNull)
    IN  [i \in 1..Len(kept) |-> kept[i].v]

\* the sum of series[lo..hi], by halves
RECURSIVE SumRange(_, _, _)
SumRange(series, lo, hi) ==
    IF lo > hi THEN 0
    ELSE IF lo = hi THEN series[lo]
    ELSE LET mid == (lo + hi) \div 2
         IN  SumRange(series, lo, mid) + SumRange(series, mid + 1, hi)

Sum(series) == SumRange(series, 1, Len(series))

\* the values in ascending order: the k-th is the value with fewer than k
\* values below it and at least k values not above it
SortedValues(series) ==
    [k \in 1..Len(series) |->
        CHOOSE v \in { series[i] : i \in 1..Len(series) } :
            /\ Cardinality({ i \in 1..Len(series) : series[i] < v }) < k
            /\ Cardinality({ i \in 1..Len(series) : series[i] <= v }) >= k]

\* Series.quantile(k/4) with linear interpolation, as a number of quarters
quantile_x4(series, k) ==
    LET sorted == SortedValues(series)
        pos4 == k * (Len(series) - 1)
        lo == pos4 \div 4
        fraction4 == pos4 % 4
    IN  4 * sorted[lo + 1]
            + (IF fraction4 > 0 THEN (sorted[lo + 2] - sorted[lo + 1]) * fraction4
               ELSE 0)

Abs(n) == IF n < 0 THEN -n ELSE n

\* round(num/den, decimal_places) as a number of hundredths: the nearest,
\* a tie going to the even one (den is a power of two: the float is exact)
RoundHalfEven(num, den) ==
    LET scaled == num * 100
        q == scaled \div den
        r == scaled % den
    IN  IF 2 * r < den THEN q
        ELSE IF 2 * r > den THEN q + 1
        ELSE IF q % 2 = 0 THEN q ELSE q + 1

NA == Quotient("na", 0, 1)

\* abs(value) >= 1e6
SciThreshold == 1000000

RECURSIVE Pow10(_)
Pow10(e) == IF e = 0 THEN 1 ELSE 10 * Pow10(e - 1)

\* the largest e with 10^e <= a/den (for a/den >= 1)
RECURSIVE Exponent10(_, _, _)
Exponent10(a, den, e) ==
    IF a >= den * Pow10(e + 1) THEN Exponent10(a, den, e + 1) ELSE e

\* a/unit rounded to the nearest integer, a tie going to the even one
NearestEven(a, unit) ==
    LET q == a \div unit
        r == a % unit
    IN  IF 2 * r < unit THEN q
        ELSE IF 2 * r > unit THEN q + 1
        ELSE q + (q % 2)

\* a mantissa that rounded up to 10.00 is written 1.00 with the next exponent
normalized(sign, m, e) ==
    IF m = 1000
    THEN [kind |-> "sci", num |-> sign * 100, den |-> 100, exp |-> e + 1]
    ELSE [kind |-> "sci", num |-> sign * m, den |-> 100, exp |-> e]

mantissa_and_exponent(sign, a, den, e) ==
    normalized(sign, NearestEven(a, den * Pow10(e - 2)), e)

\* f"{value:.2e}": the mantissa in hundredths, the nearest to the exact value
\* with a tie going to the even one, and the decimal exponent
scientific(num, den) ==
    mantissa_and_exponent(IF num < 0 THEN -1 ELSE 1, Abs(num), den,
                          Exponent10(Abs(num), den, 0))

\* _format_value: "N/A" for NaN, the int for an integer, scientific notation
\* from 1e6 on for a float, else the float rounded to decimal_places; any
\* other value as it is
_format_value(value) ==
    IF value.kind \in {"nan", "null", "na"} THEN NA
    ELSE IF value.kind = "int" THEN value
    ELSE IF value.kind = "str" THEN value
    ELSE IF Abs(value.num) \div value.den >= SciThreshold
    THEN scientific(value.num, value.den)
    ELSE Quotient("float", RoundHalfEven(value.num, value.den), 100)

\* a value of the column as max()/min() return it: numpy int for an int64
\* column, float for a float64 one, the value itself for the other dtypes
Scalar(dtype, v) ==
    IF dtype = "float64" THEN Quotient("num", v, 1) ELSE Quotient("int", v, 1)

\* round(count / len * 100, 2) as a number of hundredths of a percent
percentage_of(count, length) ==
    LET scaled == count * 10000
    IN  IF 2 * (scaled % length) >= length
        THEN scaled \div length + 1 ELSE scaled \div length

\* outliers.head(n).tolist()
head(list, n) == SubSeq(list, 1, Min(n, Len(list)))

\* the mask of _detect_outliers with the comparisons made non-strict
outlier_mask_Inclusive(value_x8, lower_x8, upper_x8) ==
    value_x8 <= lower_x8 \/ value_x8 >= upper_x8

\* (series < lower_bound) | (series > upper_bound), all in eighths
outlier_mask(value_x8, lower_x8, upper_x8) ==
    value_x8 < lower_x8 \/ value_x8 > upper_x8

\* _detect_outliers; `raises` tells that a computation inside the try raised
_detect_outliers(series, dtype, raises) ==
    IF raises THEN [error |-> "error"]
    ELSE
    LET q1 == quantile_x4(series, 1)
        q3 == quantile_x4(series, 3)
        iqr == q3 - q1
        lower_bound == 2 * q1 - 3 * iqr
        upper_bound == 2 * q3 + 3 * iqr
        Flagged(v) == outlier_mask(8 * v, lower_bound, upper_bound)
        outliers == SelectSeq(series, Flagged)
    IN  [count |-> Len(outliers),
         percentage |-> percentage_of(Len(outliers), Len(series)),
         lower_bound |-> _format_value(Quotient("num", lower_bound, 8)),
         upper_bound |-> _format_value(Quotient("num", upper_bound, 8)),
         outlier_values |->
             LET first == head(outliers, OutlierHead)
             IN  [i \in 1..Len(first) |-> _format_value(Scalar(dtype, first[i]))],
         has_outliers |-> Len(outliers) > 0]

\* _analyze_distribution: range, quartiles and IQR
_analyze_distribution(series, dtype, raises) ==
    IF raises THEN [error |-> "error"]
    ELSE
    LET sorted == SortedValues(series)
        q1 == quantile_x4(series, 1)
        q2 == quantile_x4(series, 2)
        q3 == quantile_x4(series, 3)
    IN  [range |-> _format_value(Scalar(dtype, sorted[Len(sorted)] - sorted[1])),
         q1 |-> _format_value(Quotient("num", q1, 4)),
         q2 |-> _format_value(Quotient("num", q2, 4)),
         q3 |-> _format_value(Quotient("num", q3, 4)),
         iqr |-> _format_value(Quotient("num", q3 - q1, 4))]

\* _safe_calculate with the exception passed on to the caller
_safe_calculate_Propagating(value, raises) ==
    IF raises THEN Raise("calculation failed") ELSE Return(value)

\* _safe_calculate: the value of the calculation, "N/A" if it raises
_safe_calculate(value, raises) ==
    IF raises THEN Return(NA) ELSE Return(value)

(***************************************************************************)
(* Pearson correlation and least-squares regression over the rows where    *)
(* both columns have a value.  With n pairs, c = n*Sxy - Sx*Sy,             *)
(* vx = n*Sxx - Sx^2 and vy = n*Syy - Sy^2: the correlation is              *)
(* c / sqrt(vx*vy), NaN when vx*vy = 0, and the slope is c / vx.            *)
(***************************************************************************)
\* df[[x_col, y_col]].dropna(): the rows with a value in both columns
paired(xs, ys) ==
    LET rows == { i \in 1..Min(Len(xs), Len(ys)) : xs[i] # NULL /\ ys[i] # NULL }
        row(k) == CHOOSE i \in rows : Cardinality({ j \in rows : j < i }) = k - 1
    IN  [k \in 1..Cardinality(rows) |-> [x |-> xs[row(k)].v, y |-> ys[row(k)].v]]

moments(pairs) ==
    LET n == Len(pairs)
        sx == Sum([k \in 1..n |-> pairs[k].x])
        sy == Sum([k \in 1..n |-> pairs[k].y])
        sxy == Sum([k \in 1..n |-> pairs[k].x * pairs[k].y])
        sxx == Sum([k \in 1..n |-> pairs[k].x * pairs[k].x])
        syy == Sum([k \in 1..n |-> pairs[k].y * pairs[k].y])
    IN  [c |-> n * sxy - sx * sy,
         vx |-> n * sxx - sx * sx,
         vy |-> n * syy - sy * sy]

\* c / sqrt(d) >= a / b, for d > 0 and b > 0
CorrAtLeast(c, d, a, b) ==
    IF c >= 0 /\ a <= 0 THEN TRUE
    ELSE IF c < 0 /\ a > 0 THEN FALSE
    ELSE IF c >= 0 THEN c * c * b * b >= a * a * d
    ELSE c * c * b * b <= a * a * d

\* abs(c / sqrt(d)) >= a / b, for d > 0, a >= 0 and b > 0
AbsCorrAtLeast(c, d, a, b) == c * c * b * b >= a * a * d

\* the correlation rounded to hundredths
RoundCorr(c, d) ==
    CHOOSE h \in -100..100 :
        /\ CorrAtLeast(c, d, 2 * h - 1, 200)
        /\ ~CorrAtLeast(c, d, 2 * h + 1, 200)

\* an entry of DataFrame.corr(), formatted: NaN without two distinct values
\* in each column
formatted_corr(m) ==
    IF m.vx * m.vy = 0 THEN NA
    ELSE Quotient("float", RoundCorr(m.c, m.vx * m.vy), 100)

\* _interpret_correlation_strength of abs(c / sqrt(d))
_interpret_correlation_strength(c, d) ==
    IF AbsCorrAtLeast(c, d, 4, 5) THEN "very strong"
    ELSE IF AbsCorrAtLeast(c, d, 3, 5) THEN "strong"
    ELSE IF AbsCorrAtLeast(c, d, 2, 5) THEN "moderate"
    ELSE IF AbsCorrAtLeast(c, d, 1, 5) THEN "weak"
    ELSE "very weak"

\* "Filter to numeric columns only"
numeric_columns_of(df, columns) ==
    LET Numeric(col) ==
            col \in columns_of(df) /\ is_numeric_dtype(column_of(df, col).dtype)
    IN  SelectSeq(columns, Numeric)

\* the comparison with the threshold made strict
is_strong_Strict(m, threshold) ==
    /\ m.vx * m.vy # 0
    /\ m.c * m.c * threshold.den * threshold.den
           > threshold.num * threshold.num * m.vx * m.vy

\* abs(corr_value) >= threshold; False for NaN
is_strong(m, threshold) ==
    /\ m.vx * m.vy # 0
    /\ AbsCorrAtLeast(m.c, m.vx * m.vy, threshold.num, threshold.den)

\* the loops "Find strong correlations": pairs (i, j), i < j, in loop order
RECURSIVE strong_correlations_from(_, _, _, _)
strong_correlations_from(df, numeric_columns, i, j) ==
    IF i > Len(numeric_columns) THEN <<>>
    ELSE IF j > Len(numeric_columns)
    THEN strong_correlations_from(df, numeric_columns, i + 1, i + 2)
    ELSE LET col1 == numeric_columns[i]
             col2 == numeric_columns[j]
             m == moments(paired(column_of(df, col1).values,
                                 column_of(df, col2).values))
         IN  (IF is_strong(m, correlation_threshold)
              THEN << [column1 |-> col1, column2 |-> col2,
                       correlation |-> formatted_corr(m),
                       strength |-> _interpret_correlation_strength(m.c, m.vx * m.vy),
                       direction |-> IF m.c > 0 THEN "positive" ELSE "negative"] >>
              ELSE <<>>)
                 \o strong_correlations_from(df, numeric_columns, i, j + 1)

_calculate_correlations(df, columns, raises) ==
    LET numeric_columns == numeric_columns_of(df, columns)
        names == { numeric_columns[i] : i \in 1..Len(numeric_columns) }
    IN  IF raises THEN [error |-> "error"]
        ELSE IF Len(numeric_columns) < 2
        THEN [error |-> "Need at least 2 numeric columns for correlation"]
        ELSE [matrix |->
                  [col1 \in names |-> [col2 \in names |->
                      formatted_corr(moments(paired(column_of(df, col1).values,
                                                    column_of(df, col2).values)))]],
              strong_correlations |->
                  strong_correlations_from(df, numeric_columns, 1, 2),
              threshold |-> correlation_threshold]

\* rows sorted by the time column (the times of a frame are distinct)
RECURSIVE InsertByTime(_, _)
InsertByTime(sorted, p) ==
    IF sorted = <<>> THEN <<p>>
    ELSE IF Head(sorted).x <= p.x THEN <<Head(sorted)>> \o InsertByTime(Tail(sorted), p)
    ELSE <<p>> \o sorted

RECURSIVE sort_values(_)
sort_values(pairs) ==
    IF pairs = <<>> THEN <<>>
    ELSE InsertByTime(sort_values(Tail(pairs)), Head(pairs))

SignWord(n, positive, negative, zero) ==
    IF n > 0 THEN positive ELSE IF n < 0 THEN negative ELSE zero

\* _calculate_time_trend: the regression of the values on 0, 1, 2, ...
_calculate_time_trend(df, time_col, value_col) ==
    LET df_sorted == sort_values(paired(column_of(df, time_col).values,
                                        column_of(df, value_col).values))
        n == Len(df_sorted)
        ordinal == [k \in 1..n |-> [x |-> k - 1, y |-> df_sorted[k].y]]
        m == moments(ordinal)
        first_value == df_sorted[1].y
        last_value == df_sorted[n].y
        dtype == column_of(df, value_col).dtype
    IN  IF n < min_points THEN [error |-> "Insufficient data for trend analysis"]
        ELSE [direction |-> SignWord(m.c, "increasing", "decreasing", "stable"),
              strength |-> IF m.vy = 0 THEN "very weak"
                           ELSE _interpret_correlation_strength(m.c, m.vx * m.vy),
              slope |-> _format_value(Quotient("num", m.c, m.vx)),
              r_squared |-> IF m.vy = 0 THEN _format_value(Quotient("num", 0, 1))
                            ELSE _format_value(Quotient("num", m.c * m.c, m.vx * m.vy)),
              percentage_change |->
                  IF first_value # 0
                  THEN _format_value(Quotient("num",
                           SignWord(first_value, 1, -1, 0)
                               * (last_value - first_value) * 100,
                           Abs(first_value)))
                  ELSE Quotient("int", 0, 1),
              start_value |-> _format_value(Scalar(dtype, first_value)),
              end_value |-> _format_value(Scalar(dtype, last_value))]

\* _calculate_numeric_trend: linregress raises when all x are identical
_calculate_numeric_trend(df, x_col, y_col) ==
    LET df_clean == paired(column_of(df, x_col).values, column_of(df, y_col).values)
        m == moments(df_clean)
    IN  IF Len(df_clean) < min_points
        THEN [error |-> "Insufficient data for trend analysis"]
        ELSE IF m.vx = 0 THEN [error |-> "error"]
        ELSE [relationship |-> SignWord(m.c, "positive", "negative", "no relationship"),
              strength |-> IF m.vy = 0 THEN "very weak"
                           ELSE _interpret_correlation_strength(m.c, m.vx * m.vy),
              slope |-> _format_value(Quotient("num", m.c, m.vx)),
              r_squared |-> IF m.vy = 0 THEN _format_value(Quotient("num", 0, 1))
                            ELSE _format_value(Quotient("num", m.c * m.c, m.vx * m.vy)),
              correlation |-> IF m.vy = 0 THEN Quotient("float", 0, 100)
                              ELSE formatted_corr(m)]

\* the columns of the request the frame holds with a datetime dtype
temporal_columns_of(df, columns) ==
    LET Temporal(col) ==
            col \in columns_of(df) /\ is_datetime64_any_dtype(column_of(df, col).dtype)
    IN  SelectSeq(columns, Temporal)

\* the numeric branch with the second numeric column alone regressed
\* against the first
numeric_trend_pairs_SecondOnly(numeric_columns) ==
    { <<numeric_columns[1], numeric_columns[j]>> :
         j \in 2..Min(2, Len(numeric_columns)) }

\* x_col = numeric_columns[0]; for y_col in numeric_columns[1:]
numeric_trend_pairs(numeric_columns) ==
    { <<numeric_columns[1], numeric_columns[j]>> : j \in 2..Len(numeric_columns) }

\* _analyze_trends: a dict from the key, the tokens of the f-string, to the
\* trend of the pair
_analyze_trends(df, columns, raises) ==
    LET temporal_columns == temporal_columns_of(df, columns)
        numeric_columns == numeric_columns_of(df, columns)
        time_pairs == { <<temporal_columns[i], numeric_columns[j]>> :
                           i \in 1..Len(temporal_columns),
                           j \in 1..Len(numeric_columns) }
        time_keys == { <<pr[2], "_over_", pr[1]>> : pr \in time_pairs }
        numeric_pairs == numeric_trend_pairs(numeric_columns)
        numeric_keys == { <<pr[2], "_vs_", pr[1]>> : pr \in numeric_pairs }
    IN  IF raises THEN [error |-> "error"]
        ELSE IF temporal_columns # <<>> /\ numeric_columns # <<>>
        THEN [key \in time_keys |-> _calculate_time_trend(df, key[3], key[1])]
        ELSE IF Len(numeric_columns) >= 2
        THEN [key \in numeric_keys |-> _calculate_numeric_trend(df, key[3], key[1])]
        ELSE EmptyDict

(***************************************************************************)
(* InsightsCalculator.calculate_insights.  `fails` names the computations  *)
(* that raise on the data, as pairs <<column, computation>>; the           *)
(* multi-column computations are under the column "*".                     *)
(***************************************************************************)
\* series.max(), series.min(), series.nunique()
MaxOf(series) == CHOOSE v \in { series[i] : i \in 1..Len(series) } :
                     \A i \in 1..Len(series) : v >= series[i]
MinOf(series) == CHOOSE v \in { series[i] : i \in 1..Len(series) } :
                     \A i \in 1..Len(series) : v <= series[i]
nunique(series) == Cardinality({ series[i] : i \in 1..Len(series) })

\* len(series) with the series taken before dropna()

\* int(len(series)): series is the column after dropna()
total_count_of(cells, series) == Len(series)

\* one `if InsightType.X in insight_types: column_insights[key] = ...`
Assign(acc, requested, key, calculated) ==
    IF acc.raised \/ ~requested THEN acc
    ELSE IF calculated.raised THEN calculated
    ELSE Return(Put(acc.value, key, calculated.value))

\* the body of `for column in columns` for a column of the frame: the
\* column_insights stored under insights[column], or the exception raised
column_insights_of(df, column, insight_types, fails) ==
    LET col == column_of(df, column)
        dtype == col.dtype
        series == dropna(col.values)
        numeric == is_numeric_dtype(dtype)
        Fails(what) == <<column, what>> \in fails
        a1 == Assign(Return(EmptyDict), "max" \in insight_types, "max",
                  _safe_calculate(_format_value(Scalar(dtype, MaxOf(series))),
                                  Fails("max")))
        a2 == Assign(a1, "min" \in insight_types, "min",
                  _safe_calculate(_format_value(Scalar(dtype, MinOf(series))),
                                  Fails("min")))
        a3 == Assign(a2, "mean" \in insight_types, "mean",
                  _safe_calculate(
                      IF numeric
                      THEN _format_value(Quotient("num", Sum(series), Len(series)))
                      ELSE NA,
                      Fails("mean")))
        a4 == Assign(a3, "median" \in insight_types, "median",
                  _safe_calculate(
                      IF numeric
                      THEN _format_value(Quotient("num", quantile_x4(series, 2), 4))
                      ELSE NA,
                      Fails("median")))
        a5 == Assign(a4, "distinct_count" \in insight_types, "distinct_count",
                  _safe_calculate(nunique(series), Fails("distinct_count")))
        a6 == Assign(a5, "total_count" \in insight_types, "total_count",
                  _safe_calculate(total_count_of(col.values, series),
                                  Fails("total_count")))
        a7 == Assign(a6, numeric /\ "distribution" \in insight_types, "distribution",
                  Return(_analyze_distribution(series, dtype, Fails("distribution"))))
        a8 == Assign(a7, numeric /\ "outliers" \in insight_types, "outliers",
                  Return(_detect_outliers(series, dtype, Fails("outliers"))))
    IN  IF Len(series) = 0
        THEN Return([error |-> "No valid data in column"])
        ELSE a8

\* the loop `for column in columns` from position i, with the insights so far
RECURSIVE columns_loop(_, _, _, _, _, _)
columns_loop(df, columns, insight_types, fails, i, insights) ==
    IF i > Len(columns) THEN Return(insights)
    ELSE IF columns[i] \notin columns_of(df)
    THEN columns_loop(df, columns, insight_types, fails, i + 1, insights)
    ELSE LET column_insights ==
                 column_insights_of(df, columns[i], insight_types, fails)
         IN  IF column_insights.raised THEN column_insights
             ELSE columns_loop(df, columns, insight_types, fails, i + 1,
                               Put(insights, columns[i], column_insights.value))

\* calculate_insights: the report, {"error": ...} when an exception reaches
\* the outer try
calculate_insights(df, columns, insight_types, fails) ==
    LET per_column == columns_loop(df, columns, insight_types, fails, 1, EmptyDict)
        with_correlations ==
            IF Len(columns) > 1 /\ "correlation" \in insight_types
            THEN Put(per_column.value, "correlations",
                     _calculate_correlations(df, columns,
                                             <<"*", "correlations">> \in fails))
            ELSE per_column.value
        with_trends ==
            IF Len(columns) > 1 /\ "trend" \in insight_types
            THEN Put(with_correlations, "trends",
                     _analyze_trends(df, columns, <<"*", "trends">> \in fails))
            ELSE with_correlations
    IN  IF per_column.raised THEN Return([error |-> per_column.error])
        ELSE Return(with_trends)

(***************************************************************************)
(* Calls of calculate_insights: frames, requested columns, insight types   *)
(***************************************************************************)
Column(name, dtype, cells) == [name |-> name, dtype |-> dtype, values |-> cells]

Cells(values) == [i \in 1..Len(values) |-> Num(values[i])]

\* the dtype pandas gives a column of integers: float64 once a cell is NULL
NumericDtype(cells) ==
    IF \E i \in 1..Len(cells) : cells[i] = NULL THEN "float64" ELSE "int64"

\* calculate_basic_insights / calculate_advanced_insights
basic_insights == {"max", "min", "mean", "distinct_count", "total_count"}
all_insights == InsightType

InsightTypeSets ==
    { basic_insights, all_insights, {"correlation", "trend"},
      {"median", "outliers", "distribution"} }

\* the data set [1, 2, 3, 4, 5, 100]
TukeyFixture == Cells(<<1, 2, 3, 4, 5, 100>>)

\* eleven rows of 0 followed by thirty-seven rows of 1
ManyOutliers == [i \in 1..48 |-> IF i <= 11 THEN Num(0) ELSE Num(1)]

InsightCells == {NULL} \cup { Num(v) : v \in 0..MaxCell }

\* one-column frames: every column of cells, numeric or object
SingleColumnCalls ==
    { [df |-> << Column("a", dtype, cells) >>, columns |-> <<"a">>,
       insight_types |-> all_insights, fails |-> {}] :
         dtype \in {"numeric", "object"},
         cells \in SeqsOf(InsightCells, 0, MaxInsightRows)
                       \cup {TukeyFixture, ManyOutliers} }

\* frames of three numeric columns: a and b swept with two columns
\* requested, and a swept against a ramp b with all three requested
PairFrame(xs, ys) ==
    << Column("a", "int64", Cells(xs)),
       Column("b", "int64", Cells(ys)),
       Column("c", "int64", [i \in 1..MaxPairRows |-> Num(i % 2)]) >>

PairCalls ==
    { [df |-> PairFrame(xs, ys), columns |-> <<"a", "b">>,
       insight_types |-> {"correlation", "trend"}, fails |-> {}] :
         xs \in [1..MaxPairRows -> 0..MaxCell],
         ys \in [1..MaxPairRows -> 0..MaxCell] }
    \cup
    { [df |-> PairFrame(xs, [i \in 1..MaxPairRows |-> i - 1]),
       columns |-> <<"b", "c", "a">>,
       insight_types |-> {"correlation", "trend"}, fails |-> {}] :
         xs \in [1..MaxPairRows -> 0..MaxCell] }

\* a frame of six rows: two datetime columns, three numeric ones (one with
\* too few values for a trend) and a text column
SampleFrame ==
    << Column("t", "datetime64[ns]", Cells(<<0, 1, 2, 3, 4, 5>>)),
       Column("u", "datetime64[ns]", Cells(<<5, 4, 3, 2, 1, 0>>)),
       Column("n1", "int64", Cells(<<0, 1, 1, 2, 2, 2>>)),
       Column("n2", "int64", Cells(<<2, 0, 1, 0, 2, 1>>)),
       Column("n3", "float64", <<Num(1), NULL, Num(0), NULL, Num(2), Num(0)>>),
       Column("s", "object", Cells(<<0, 1, 0, 1, 2, 2>>)) >>

RequestNames == {"t", "u", "n1", "n2", "n3", "s", "missing"}

\* requested columns: distinct names (_get_insight_columns adds a name once)
Requests(maxLen) ==
    { r \in SeqsOf(RequestNames, 0, maxLen) :
         \A i, j \in 1..Len(r) : i # j => r[i] # r[j] }

FailingComputations ==
    {"max", "mean", "distinct_count", "total_count", "distribution", "outliers"}

\* no failure, one failing computation (or all of them) of the first
\* requested column, or a failing multi-column computation
FailSets(columns) ==
    {{}} \cup { {<<"*", what>>} : what \in {"correlations", "trends"} }
         \cup (IF columns = <<>> THEN {}
               ELSE { {<<columns[1], what>>} : what \in FailingComputations }
                        \cup { { <<columns[1], what>> : what \in FailingComputations } })

InsightsCall(args) ==
    [op |-> "calculate_insights",
     df |-> [i \in 1..Len(args.df) |->
                IF args.df[i].dtype = "numeric"
                THEN [args.df[i] EXCEPT !.dtype = NumericDtype(args.df[i].values)]
                ELSE args.df[i]],
     columns |-> args.columns, insight_types |-> args.insight_types,
     fails |-> args.fails]

InitInsights ==
    /\ \/ \E args \in SingleColumnCalls \cup PairCalls : call = InsightsCall(args)
       \/ \E columns \in Requests(MaxRequested) :
              \E insight_types \in InsightTypeSets :
                  \E fails \in (IF insight_types = all_insights
                                THEN FailSets(columns) ELSE {{}}) :
                      call = InsightsCall([df |-> SampleFrame, columns |-> columns,
                                           insight_types |-> insight_types,
                                           fails |-> fails])
    /\ result = Pending
    /\ HandlerConstructed

CalculateInsights ==
    /\ call.op = "calculate_insights"
    /\ result = Pending
    /\ result' = calculate_insights(call.df, call.columns, call.insight_types,
                                    call.fails)
    /\ UNCHANGED <<call, active_requests, db_manager>>

NextInsights == CalculateInsights

SpecInsights == InitInsights /\ [][NextInsights]_vars

(***************************************************************************)
(* ChartTypeRegistry._categorize_column_type on raw type strings: up to    *)
(* MaxTypeWords words joined without a separator, in upper case, in lower  *)
(* case and capitalised.  The words are the tokens of the function, type   *)
(* names of DuckDB that hold none of them, tokens cut short, a             *)
(* parenthesised width and the empty string.                               *)
(***************************************************************************)
TypeWords ==
    { NumericTokens[k] : k \in 1..Len(NumericTokens) }
    \cup { TemporalTokens[k] : k \in 1..Len(TemporalTokens) }
    \cup { <<"V","A","R","C","H","A","R">>, <<"T","E","X","T">>,
           <<"B","O","O","L","E","A","N">>, <<"I","N","T">>,
           <<"S","M","A","L","L","I","N","T">>, <<"U","U","I","D">>,
           <<"I","N","T","E","G","E">>, <<"D","A","T">>, <<"I","M","E">>,
           <<"(","1","0",")">>, <<" ">>, <<>> }

RECURSIVE Concat(_)
Concat(words) == IF words = <<>> THEN <<>> ELSE Head(words) \o Concat(Tail(words))

\* str.lower() on upper-case ASCII text
lower(s) ==
    [i \in 1..Len(s) |->
        IF \E k \in 1..Len(UpperLetters) : UpperLetters[k] = s[i]
        THEN LowerLetters[CHOOSE k \in 1..Len(UpperLetters) : UpperLetters[k] = s[i]]
        ELSE s[i]]

\* str.capitalize() on upper-case ASCII text
capitalize(s) == IF s = <<>> THEN s ELSE <<s[1]>> \o lower(Tail(s))

Spellings(s) == {s, lower(s), capitalize(s)}

SqlTypes ==
    UNION { Spellings(Concat(words)) :
              words \in UNION { [1..n -> TypeWords] : n \in 1..MaxTypeWords } }

InitCategorize ==
    /\ \E sql_type \in SqlTypes :
           call = [op |-> "_categorize_column_type", sql_type |-> sql_type]
    /\ result = Pending
    /\ HandlerConstructed

CategorizeColumnType ==
    /\ call.op = "_categorize_column_type"
    /\ result = Pending
    /\ result' = Return(_categorize_column_type(call.sql_type))
    /\ UNCHANGED <<call, active_requests, db_manager>>

NextCategorize == CategorizeColumnType

SpecCategorize == InitCategorize /\ [][NextCategorize]_vars

(***************************************************************************)
(* SimpleFallbackClient.detect_chart_type and _fallback_chart_detection.   *)
(* A request is text, a sequence of characters; chart_keywords keeps the   *)
(* insertion order of the dict; confidence is kept in tenths.              *)
(***************************************************************************)
\* the keys of chart_keywords, in insertion order
KeywordOrder == <<"scatter", "line", "pie", "histogram", "box", "heatmap", "area">>
chart_keywords ==
    [chart_type \in { KeywordOrder[i] : i \in 1..Len(KeywordOrder) } |->
        CASE chart_type = "scatter" ->
                 << <<"s","c","a","t","t","e","r">>,
                    <<"c","o","r","r","e","l","a","t","i","o","n">>,
                    <<"r","e","l","a","t","i","o","n","s","h","i","p">>,
                    <<"v","s">>,
                    <<"a","g","a","i","n","s","t">> >>
          [] chart_type = "line" ->
                 << <<"l","i","n","e">>,
                    <<"t","r","e","n","d">>,
                    <<"o","v","e","r"," ","t","i","m","e">>,
                    <<"t","i","m","e","l","i","n","e">>,
                    <<"t","i","m","e"," ","s","e","r","i","e","s">>,
                    <<"t","e","m","p","o","r","a","l">> >>
          [] chart_type = "pie" ->
                 << <<"p","i","e">>,
                    <<"p","r","o","p","o","r","t","i","o","n">>,
                    <<"p","e","r","c","e","n","t","a","g","e">>,
                    <<"s","h","a","r","e">>,
                    <<"d","i","s","t","r","i","b","u","t","i","o","n">>,
                    <<"b","r","e","a","k","d","o","w","n">> >>
          [] chart_type = "histogram" ->
                 << <<"h","i","s","t","o","g","r","a","m">>,
                    <<"d","i","s","t","r","i","b","u","t","i","o","n">>,
                    <<"f","r","e","q","u","e","n","c","y">>,
                    <<"b","i","n","s">> >>
          [] chart_type = "box" ->
                 << <<"b","o","x">>,
                    <<"b","o","x","p","l","o","t">>,
                    <<"q","u","a","r","t","i","l","e">>,
                    <<"o","u","t","l","i","e","r">> >>
          [] chart_type = "heatmap" ->
                 << <<"h","e","a","t","m","a","p">>,
                    <<"h","e","a","t"," ","m","a","p">>,
                    <<"c","o","r","r","e","l","a","t","i","o","n"," ","m","a","t","r","i","x">>,
                    <<"m","a","t","r","i","x">> >>
          [] chart_type = "area" ->
                 << <<"a","r","e","a">>,
                    <<"f","i","l","l","e","d">>,
                    <<"c","u","m","u","l","a","t","i","v","e">> >>]
\* sum(1 for keyword in keywords if keyword in request_lower)
keyword_score(request_lower, chart_type) ==
    Cardinality({ k \in 1..Len(chart_keywords[chart_type]) :
                     Contains(request_lower, chart_keywords[chart_type][k]) })

\* the keys of scores, in insertion order: the kinds with a score above 0
scored_kinds(request_lower) ==
    SelectSeq(KeywordOrder, LAMBDA chart_type : keyword_score(request_lower, chart_type) > 0)

\* max(scores, key=scores.get): the first key with the highest score
best_of(request_lower, kinds) ==
    kinds[CHOOSE i \in 1..Len(kinds) :
             /\ \A j \in 1..Len(kinds) :
                    keyword_score(request_lower, kinds[j])
                        <= keyword_score(request_lower, kinds[i])
             /\ \A j \in 1..(i - 1) :
                    keyword_score(request_lower, kinds[j])
                        < keyword_score(request_lower, kinds[i])]

_default_chart_for_columns(columns) ==
    IF Len(columns) >= 2 THEN "scatter" ELSE "histogram"

_fallback_chart_detection(request, columns) ==
    LET request_lower == lower(request)
        kinds == scored_kinds(request_lower)
        best_chart == IF kinds # <<>> THEN best_of(request_lower, kinds)
                      ELSE _default_chart_for_columns(columns)
        confidence_x10 == IF kinds # <<>>
                          THEN Min(keyword_score(request_lower, best_chart) * 3, 9)
                          ELSE 3
    IN  [chart_type |-> best_chart, confidence_x10 |-> confidence_x10,
         success |-> TRUE]

detect_chart_type(request, columns, table_name) ==
    _fallback_chart_detection(request, columns)

\* the words requests are made of: the names of the chart kinds, words of the
\* test's request and two keywords that are not names
RequestWords ==
    { <<"b","a","r">>,
      <<"l","i","n","e">>,
      <<"s","c","a","t","t","e","r">>,
      <<"p","i","e">>,
      <<"h","i","s","t","o","g","r","a","m">>,
      <<"b","o","x">>,
      <<"h","e","a","t","m","a","p">>,
      <<"a","r","e","a">>,
      <<"c","h","a","r","t">>,
      <<"p","l","o","t">>,
      <<"o","f">>,
      <<"s","a","l","e","s">>,
      <<"v","s">>,
      <<"r","e","v","e","n","u","e">>,
      <<"t","i","m","e","l","i","n","e">>,
      <<"d","i","s","t","r","i","b","u","t","i","o","n">>,
      <<"S","h","o","w">>,
      <<"m","e">>,
      <<"a">> }

RECURSIVE JoinWords(_)
JoinWords(words) ==
    IF Len(words) = 1 THEN words[1]
    ELSE words[1] \o <<" ">> \o JoinWords(Tail(words))

\* the request of test_detect_chart_type
ScatterRequest ==
    JoinWords(<< <<"S","h","o","w">>,
                 <<"m","e">>,
                 <<"a">>,
                 <<"s","c","a","t","t","e","r">>,
                 <<"p","l","o","t">>,
                 <<"o","f">>,
                 <<"s","a","l","e","s">>,
                 <<"v","s">>,
                 <<"r","e","v","e","n","u","e">> >>)

DetectRequests ==
    {ScatterRequest}
    \cup { JoinWords(words) :
             words \in UNION { [1..n -> RequestWords] : n \in 1..MaxRequestWords } }

\* column lists of each length: only the length is read
DetectColumns == { SubSeq(ColumnNames, 1, n) : n \in 0..MaxDetectColumns }

InitDetect ==
    /\ \E request \in DetectRequests : \E columns \in DetectColumns :
           call = [op |-> "detect_chart_type", request |-> request,
                   columns |-> columns, table_name |-> "sales_data"]
    /\ result = Pending
    /\ HandlerConstructed

DetectChartType ==
    /\ call.op = "detect_chart_type"
    /\ result = Pending
    /\ result' = Return(detect_chart_type(call.request, call.columns, call.table_name))
    /\ UNCHANGED <<call, active_requests, db_manager>>

NextDetect == DetectChartType

SpecDetect == InitDetect /\ [][NextDetect]_vars

(***************************************************************************)
(* RequestHandler: the tool handlers that read or write active_requests    *)
(* and db_manager.  llm_client is the SimpleFallbackClient.  What the file *)
(* system and DuckDB decide is an input of the call: whether a database    *)
(* connects, whether the in-memory import of load_database succeeds, and   *)
(* whether the generation block of configure_chart (the query, the chart   *)
(* and the formatting of the answer) raises.  A request id f"req_{n}" is   *)
(* the pair <<"req_", n>>.  Every handler answers with a text; the model   *)
(* keeps which text it is.                                                 *)
(***************************************************************************)
\* the files load_database and change_database are pointed at
DatabaseFiles == {"sales.duckdb", "sales.csv"}
MissingFile == "missing.duckdb"
UnsupportedFile == "notes.txt"

Suffix(path) ==
    CASE path \in {"sales.duckdb", "missing.duckdb"} -> ".duckdb"
      [] path = "sales.csv" -> ".csv"
      [] OTHER -> ".txt"

\* the tables of a database file (for a CSV file: the table it is imported as)
TablesIn(db_path) ==
    CASE db_path = "sales.duckdb" -> <<"sales_data">>
      [] db_path = "sales.csv" -> <<"sales">>
      [] OTHER -> <<>>

\* DESCRIBE table_name
ColumnsIn(table_name) == SalesProfile

\* DatabaseManager.close
close(manager) == [manager EXCEPT !.connection = "none"]

\* DatabaseManager.get_tables: [] when the query raises
get_tables(manager) ==
    IF manager.connection = "none" THEN <<>> ELSE manager.tables

\* DatabaseManager.get_columns: [] when DESCRIBE raises
get_columns(manager, table_name) ==
    IF manager.connection = "none" THEN <<>>
    ELSE IF \E i \in 1..Len(manager.tables) : manager.tables[i] = table_name
    THEN ColumnsIn(table_name)
    ELSE <<>>

VisualizationRequest(id, chart_type, table_name, original_request) ==
    [id |-> id, chart_type |-> chart_type, table_name |-> table_name,
     original_request |-> original_request, column_mappings |-> <<>>,
     insights_requested |-> <<>>, status |-> "pending_config",
     error_message |-> "None"]

\* the answer of a handler: which text, and the values it shows
Answer(text, shown) == Return([text |-> text, shown |-> shown])

\* request_id = f"req_{len(self.active_requests)}"
request_id_for(requests) == <<"req_", Cardinality(DOMAIN requests)>>

\* self.active_requests[request_id] = viz_request
Store(requests, request_id, viz_request) ==
    [id \in DOMAIN requests \cup {request_id} |->
        IF id = request_id THEN viz_request ELSE requests[id]]

\* the del statement left out: the request stays in active_requests
Delete_Keeping(requests, request_id) == requests

\* del self.active_requests[request_id]
Delete(requests, request_id) ==
    [id \in DOMAIN requests \ {request_id} |-> requests[id]]

\* arguments of the tools
HandlerRequests == {<<>>, ScatterRequest, <<"p","i","e">>}
HandlerTables == {"", "sales_data"}
RequestIds == { <<"req_", n>> : n \in 0..MaxActive }
ScatterMapping == [x_axis |-> "sales", y_axis |-> "sales"]
PieMapping == [category |-> "region", values |-> "sales"]
HandlerMappings == {ScatterMapping, PieMapping}

InitHandler ==
    /\ call = [op |-> "initialize"]
    /\ result = Pending
    /\ HandlerConstructed

\* _handle_create_visualization
CreateVisualization ==
    \E request \in HandlerRequests : \E table_name \in HandlerTables :
        LET columns == get_columns(db_manager, table_name)
            column_names == [i \in 1..Len(columns) |-> columns[i]["name"]]
            llm_response == detect_chart_type(request, column_names, table_name)
            chart_type == IF llm_response.chart_type \in ChartType
                          THEN llm_response.chart_type ELSE "bar"
            request_id == request_id_for(active_requests)
        IN  /\ Cardinality(DOMAIN active_requests) < MaxActive
            /\ call' = [op |-> "create_visualization", request |-> request,
                        table_name |-> table_name]
            /\ UNCHANGED db_manager
            /\ IF request = <<>>
               THEN /\ result' = Answer("Please provide a 'request' parameter", <<>>)
                    /\ UNCHANGED active_requests
               ELSE IF table_name = ""
               THEN /\ result' = Answer("Please specify a table name",
                                        get_tables(db_manager))
                    /\ UNCHANGED active_requests
               ELSE IF columns = <<>>
               THEN /\ result' = Answer("Table not found", <<>>)
                    /\ UNCHANGED active_requests
               ELSE IF ~llm_response.success
               THEN /\ result' = Answer("Error detecting chart type", <<>>)
                    /\ UNCHANGED active_requests
               ELSE /\ active_requests' =
                           Store(active_requests, request_id,
                                 VisualizationRequest(request_id, chart_type,
                                                      table_name, request))
                    /\ result' = Answer("Visualization Request Processed", request_id)

\* _handle_configure_chart
ConfigureChart ==
    \E request_id \in RequestIds : \E column_mappings \in HandlerMappings :
        \E generation \in {"returns", "raises"} :
            /\ call' = [op |-> "configure_chart", request_id |-> request_id,
                        column_mappings |-> column_mappings,
                        generation |-> generation]
            /\ UNCHANGED db_manager
            /\ IF request_id \notin DOMAIN active_requests
               THEN /\ result' = Answer("Request ID not found", request_id)
                    /\ UNCHANGED active_requests
               ELSE LET viz_request ==
                            [active_requests[request_id] EXCEPT
                                !.column_mappings = column_mappings,
                                !.insights_requested = <<>>]
                        columns == get_columns(db_manager, viz_request.table_name)
                        validation ==
                            validate_chart_configuration(viz_request.chart_type,
                                                         column_mappings, columns).value
                    IN  IF ~validation.valid
                        THEN /\ active_requests' =
                                    [active_requests EXCEPT ![request_id] = viz_request]
                             /\ result' = Answer("Configuration validation failed",
                                                 validation.errors)
                        ELSE IF generation = "raises" \/ db_manager.connection = "none"
                        THEN /\ active_requests' =
                                    [active_requests EXCEPT ![request_id] =
                                        [viz_request EXCEPT
                                            !.status = "error",
                                            !.error_message = "str(e)"]]
                             /\ result' = Answer("Error generating chart", <<>>)
                        ELSE /\ active_requests' = Delete(active_requests, request_id)
                             /\ result' = Answer("Chart Generated Successfully", request_id)

\* _handle_change_database
ChangeDatabase ==
    \E database_path \in DatabaseFiles \cup {"", MissingFile} :
        \E connects \in BOOLEAN :
            /\ call' = [op |-> "change_database", database_path |-> database_path]
            /\ UNCHANGED active_requests
            /\ IF database_path = ""
               THEN /\ result' = Answer("Error: Database path is required", <<>>)
                    /\ UNCHANGED db_manager
               ELSE IF connects
               THEN /\ db_manager' = DatabaseManager(database_path, TablesIn(database_path))
                    /\ result' = Answer("Successfully connected to database",
                                        get_tables(db_manager'))
               ELSE /\ db_manager' = close(db_manager)
                    /\ result' = Answer("Failed to connect to database", <<>>)

\* _handle_load_database
LoadDatabase ==
    \E database_path \in DatabaseFiles \cup {"", MissingFile, UnsupportedFile} :
        \E connects \in BOOLEAN : \E imports \in BOOLEAN :
            /\ call' = [op |-> "load_database", database_path |-> database_path]
            /\ UNCHANGED active_requests
            /\ IF database_path = ""
               THEN /\ result' = Answer("Error: Database path is required", <<>>)
                    /\ UNCHANGED db_manager
               ELSE IF database_path = MissingFile
               THEN /\ result' = Answer("Error: Database file not found", <<>>)
                    /\ UNCHANGED db_manager
               ELSE IF Suffix(database_path) \notin {".duckdb", ".db", ".csv"}
               THEN /\ result' = Answer("Error: Unsupported file type", <<>>)
                    /\ UNCHANGED db_manager
               ELSE IF connects
               THEN /\ db_manager' =
                           DatabaseManager(IF Suffix(database_path) = ".csv"
                                           THEN ":memory:" ELSE database_path,
                                           TablesIn(database_path))
                    /\ result' = Answer("Database Loaded Successfully",
                                        get_tables(db_manager'))
               ELSE IF imports
               THEN /\ db_manager' = DatabaseManager(":memory:", TablesIn(database_path))
                    /\ result' = Answer("Database Loaded via In-Memory Import",
                                        get_tables(db_manager'))
               ELSE /\ result' = Answer("Error: Failed to connect to database", <<>>)
                    /\ UNCHANGED db_manager

\* _handle_list_tables
ListTables ==
    /\ call' = [op |-> "list_tables"]
    /\ UNCHANGED <<active_requests, db_manager>>
    /\ result' = IF get_tables(db_manager) = <<>>
                 THEN Answer("No tables found in the database", <<>>)
                 ELSE Answer("Available Tables", get_tables(db_manager))

NextHandler ==
    \/ CreateVisualization
    \/ ConfigureChart
    \/ ChangeDatabase
    \/ LoadDatabase
    \/ ListTables

SpecHandler == InitHandler /\ [][NextHandler]_vars

(***************************************************************************)
(* InsightsCalculator._format_value on single values: None and NaN, ints,  *)
(* floats num/den with den a power of two (their float is exact), below    *)
(* and around 1e6 in magnitude, and a string                               *)
(***************************************************************************)
FloatDenominators == {1, 2, 4, 8}

SmallNumerators == (0 - MaxFormatNum)..MaxFormatNum

\* numerators of the values within MaxFormatOffset/den of 1e6 and of -1e6
NumeratorsAround(den) ==
    { sign * (SciThreshold * den + k) :
        sign \in {-1, 1}, k \in (0 - MaxFormatOffset)..MaxFormatOffset }

FormatValues ==
    {Quotient("null", 0, 1), Quotient("nan", 0, 1), Quotient("str", 0, 1)}
    \cup { Quotient("int", n, 1) : n \in SmallNumerators \cup NumeratorsAround(1) }
    \cup UNION { { Quotient("num", n, den) :
                     n \in SmallNumerators \cup NumeratorsAround(den)
                           \cup { 10 * m : m \in NumeratorsAround(den) } } :
                 den \in FloatDenominators }

InitFormat ==
    /\ \E value \in FormatValues : call = [op |-> "_format_value", value |-> value]
    /\ result = Pending
    /\ HandlerConstructed

ApplyFormatValue ==
    /\ call.op = "_format_value"
    /\ result = Pending
    /\ result' = Return(_format_value(call.value))
    /\ UNCHANGED <<call, active_requests, db_manager>>

NextFormat == ApplyFormatValue

SpecFormat == InitFormat /\ [][NextFormat]_vars

(***************************************************************************)
(* Vocabulary of the validation claims, stated on the call's arguments     *)
(***************************************************************************)
Done == "raised" \in DOMAIN result

ValidateDone == Done /\ call.op = "validate"

\* a validate call on a kind of the catalog that returned a result
ValidatedKnown == ValidateDone /\ call.chart_type \in ChartType /\ ~result.raised

RequirementsOf(kind) ==
    { chart_definitions[kind].column_requirements[i] :
         i \in 1..Len(chart_definitions[kind].column_requirements) }

AllowedCategories(req) ==
    IF "any" \in { req.data_types[k] : k \in 1..Len(req.data_types) }
    THEN {"numeric", "categorical", "temporal"}
    ELSE { req.data_types[k] : k \in 1..Len(req.data_types) }

ProfileNames(profile) == { profile[i]["name"] : i \in 1..Len(profile) }

\* categories of the profile columns called `name` (one: names are distinct)
CategoriesOfColumn(profile, name) ==
    { _categorize_column_type(profile[i]["type"]) :
         i \in { j \in 1..Len(profile) : profile[j]["name"] = name } }

\* the role is mapped to a non-empty column name
Populated(mapping, role) == role \in DOMAIN mapping /\ mapping[role] # ""

\* the role is mapped to a profile column whose category the role allows
MappedToAllowedColumn(mapping, profile, req) ==
    /\ Populated(mapping, req.name)
    /\ mapping[req.name] \in ProfileNames(profile)
    /\ CategoriesOfColumn(profile, mapping[req.name]) \subseteq AllowedCategories(req)

\* the role is mapped to a profile column whose category the role does not allow
MappedToWrongCategory(mapping, profile, req) ==
    /\ Populated(mapping, req.name)
    /\ mapping[req.name] \in ProfileNames(profile)
    /\ ~(CategoriesOfColumn(profile, mapping[req.name]) \subseteq AllowedCategories(req))

PopulatedRoles(kind, mapping) ==
    { req \in RequirementsOf(kind) : Populated(mapping, req.name) }

SeqToSet(s) == { s[i] : i \in 1..Len(s) }

\* number of invalid_types entries recorded for a role
InvalidEntriesFor(value, role) ==
    Cardinality({ i \in 1..Len(value.invalid_types) :
                     value.invalid_types[i].requirement = role })

(***************************************************************************)
(* C1: validate_chart_configuration returns valid = true iff every         *)
(* required role of the kind is mapped to a column that is present in the  *)
(* profile and whose category is allowed for the role, and the number of   *)
(* populated roles is at least min_columns.                                *)
(***************************************************************************)
C1_ValidIffRequirementsMet ==
    ValidatedKnown =>
        (result.value.valid <=>
            /\ \A req \in RequirementsOf(call.chart_type) :
                   req.required =>
                       MappedToAllowedColumn(call.column_mappings,
                                             call.available_columns, req)
            /\ Cardinality(PopulatedRoles(call.chart_type, call.column_mappings))
                   >= chart_definitions[call.chart_type].min_columns)

(***************************************************************************)
(* C2: whenever validate_chart_configuration returns valid = true, every   *)
(* non-empty column name mapped to a role of the kind (required or         *)
(* optional) names a column of the profile passed to the call.             *)
(***************************************************************************)
C2_ValidMappingNamesProfileColumns ==
    (ValidatedKnown /\ result.value.valid) =>
        \A req \in PopulatedRoles(call.chart_type, call.column_mappings) :
            call.column_mappings[req.name] \in ProfileNames(call.available_columns)

(***************************************************************************)
(* C6: for a kind of the catalog validate_chart_configuration returns a    *)
(* result and does not raise; missing_required lists exactly the required  *)
(* roles with no or an empty mapped column, invalid_types has exactly one  *)
(* entry for each mapped role whose profile column has a category outside  *)
(* the role's allowed categories (and none for any other role), and valid  *)
(* is true iff errors is empty.  Scatter with only x_axis mapped to a      *)
(* categorical column gives valid = false, y_axis in missing_required and  *)
(* x_axis in invalid_types.                                                *)
(***************************************************************************)
ScatterOnlyCategoricalX ==
    /\ ValidateDone
    /\ call.chart_type = "scatter"
    /\ DOMAIN call.column_mappings = {"x_axis"}
    /\ call.column_mappings["x_axis"] \in ProfileNames(call.available_columns)
    /\ CategoriesOfColumn(call.available_columns, call.column_mappings["x_axis"])
           = {"categorical"}

C6_ValidationItemizesFailures ==
    (ValidateDone /\ call.chart_type \in ChartType) =>
        /\ ~result.raised
        /\ SeqToSet(result.value.missing_required) =
               { req.name : req \in
                   { r \in RequirementsOf(call.chart_type) :
                        r.required /\ ~Populated(call.column_mappings, r.name) } }
        /\ Len(result.value.missing_required) =
               Cardinality(SeqToSet(result.value.missing_required))
        /\ \A req \in RequirementsOf(call.chart_type) :
               InvalidEntriesFor(result.value, req.name) =
                   IF MappedToWrongCategory(call.column_mappings,
                                            call.available_columns, req)
                   THEN 1 ELSE 0
        /\ Len(result.value.invalid_types) =
               Cardinality({ req \in RequirementsOf(call.chart_type) :
                               MappedToWrongCategory(call.column_mappings,
                                                     call.available_columns, req) })
        /\ (result.value.valid <=> result.value.errors = <<>>)
        /\ ScatterOnlyCategoricalX =>
               /\ ~result.value.valid
               /\ "y_axis" \in SeqToSet(result.value.missing_required)
               /\ InvalidEntriesFor(result.value, "x_axis") = 1

C6_Witness ==
    /\ ScatterOnlyCategoricalX
    /\ ~result.raised
    /\ ~result.value.valid
    /\ result.value.missing_required = <<"y_axis">>
    /\ Len(result.value.invalid_types) = 1

(***************************************************************************)
(* C7: calling validate_chart_configuration with a chart kind that has no  *)
(* definition in the catalog fails as an error raised to the caller        *)
(* instead of returning a validation result.                               *)
(***************************************************************************)
C7_UnknownKindRaises ==
    (ValidateDone /\ call.chart_type \notin ChartType) => result.raised

\* C7 as amended: for a chart kind with no definition the call does not
\* raise; it returns a result with valid = false and an `error` message
\* and without the errors / missing_required / invalid_types lists.
C7_UnknownKindReturnsInvalid ==
    (ValidateDone /\ call.chart_type \notin ChartType) =>
        /\ ~result.raised
        /\ DOMAIN result.value = {"valid", "error"}
        /\ ~result.value.valid
        /\ result.value.error = "Unknown chart type"

C7_Witness ==
    /\ ValidateDone
    /\ call.chart_type \notin ChartType
    /\ ~result.raised
    /\ ~result.value.valid

(***************************************************************************)
(* C8: Scatter's optional color role accepts a column of any category: a   *)
(* Scatter mapping with numeric x_axis and y_axis and color mapped to a    *)
(* numeric, categorical or temporal profile column validates with no       *)
(* invalid_types entry for color.                                          *)
(***************************************************************************)
\* Scatter call with numeric x_axis and y_axis and color mapped to a profile
\* column of category cat
ScatterWithColor(cat) ==
    /\ ValidateDone
    /\ call.chart_type = "scatter"
    /\ {"x_axis", "y_axis", "color"} \subseteq DOMAIN call.column_mappings
    /\ \A r \in {"x_axis", "y_axis", "color"} :
           call.column_mappings[r] \in ProfileNames(call.available_columns)
    /\ \A r \in {"x_axis", "y_axis"} :
           CategoriesOfColumn(call.available_columns, call.column_mappings[r])
               = {"numeric"}
    /\ CategoriesOfColumn(call.available_columns, call.column_mappings["color"])
           = {cat}

SuggestDone == Done /\ call.op = "suggest"

\* positions of the profile columns whose category the role allows
ColumnsAllowedFor(profile, req) ==
    { i \in 1..Len(profile) :
         _categorize_column_type(profile[i]["type"]) \in AllowedCategories(req) }

RequiredOf(kind) == { req \in RequirementsOf(kind) : req.required }

\* every required role of the kind has a profile column it allows
Satisfiable(kind, profile) ==
    \A req \in RequiredOf(kind) : ColumnsAllowedFor(profile, req) # {}

SatisfiableKinds(profile) == { k \in ChartType : Satisfiable(k, profile) }

RECURSIVE CappedSum(_, _)
CappedSum(reqs, profile) ==
    IF reqs = {} THEN 0
    ELSE LET req == CHOOSE r \in reqs : TRUE
         IN  Min(Cardinality(ColumnsAllowedFor(profile, req)), 3)
                 + CappedSum(reqs \ {req}, profile)

CatalogIndex(kind) == CHOOSE i \in 1..Len(ChartOrder) : ChartOrder[i] = kind

KindsIn(entries) == { entries[i].chart_type : i \in 1..Len(entries) }

\* a ranks before b: higher score, or the same score and earlier in the catalog
RanksBefore(a, b) ==
    \/ a.score > b.score
    \/ a.score = b.score /\ CatalogIndex(a.chart_type) < CatalogIndex(b.chart_type)

NumberOf(profile, category) ==
    Cardinality({ i \in 1..Len(profile) :
                     _categorize_column_type(profile[i]["type"]) = category })

(***************************************************************************)
(* C9: suggest_chart_types returns the first min(5, n) entries of the n    *)
(* satisfiable chart kinds ordered by non-increasing score, kinds of equal *)
(* score in catalog definition order.                                      *)
(***************************************************************************)
C9_TopFiveByScoreThenCatalogOrder ==
    SuggestDone =>
        LET value == result.value
            n == Cardinality(SatisfiableKinds(call.available_columns))
        IN  /\ ~result.raised
            /\ Len(value) = Min(5, n)
            /\ KindsIn(value) \subseteq SatisfiableKinds(call.available_columns)
            /\ \A i, j \in 1..Len(value) : i < j => RanksBefore(value[i], value[j])
            /\ \A k \in 1..Len(result.suggestions) :
                   result.suggestions[k].chart_type \notin KindsIn(value) =>
                       \A i \in 1..Len(value) :
                           RanksBefore(value[i], result.suggestions[k])
            /\ \A i \in 1..Len(value) :
                   \E k \in 1..Len(result.suggestions) :
                       result.suggestions[k] = value[i]

\* more than five kinds are satisfiable, and two returned entries tie
C9_Witness ==
    /\ SuggestDone
    /\ Cardinality(SatisfiableKinds(call.available_columns)) > 5
    /\ Len(result.value) = 5
    /\ \E i \in 1..4 :
           /\ result.value[i].score = result.value[i + 1].score
           /\ CatalogIndex(result.value[i].chart_type)
                  < CatalogIndex(result.value[i + 1].chart_type)
    /\ \E i \in 1..4 : result.value[i].score > result.value[i + 1].score

(***************************************************************************)
(* C10: a chart kind is scored by suggest_chart_types iff each of its      *)
(* required roles has at least one profile column whose category the role  *)
(* allows; every other kind is dropped.  The base score of a scored kind   *)
(* (its score without the bonus points) is the sum over its required roles *)
(* of min(number of profile columns allowed for the role, 3); optional     *)
(* roles add nothing.                                                      *)
(***************************************************************************)
C10_ScoredIffSatisfiableWithCappedBase ==
    SuggestDone =>
        /\ KindsIn(result.suggestions) = SatisfiableKinds(call.available_columns)
        /\ Len(result.suggestions) = Cardinality(KindsIn(result.suggestions))
        /\ \A k \in 1..Len(result.suggestions) :
               LET e == result.suggestions[k]
                   bonus == SumPoints(bonus_parts(
                                e.chart_type,
                                NumberOf(call.available_columns, "numeric"),
                                NumberOf(call.available_columns, "categorical"),
                                NumberOf(call.available_columns, "temporal")))
               IN  e.score - bonus =
                       CappedSum(RequiredOf(e.chart_type), call.available_columns)

\* four numeric columns: the cap is in effect for the scored kinds, and the
\* kinds that need a categorical column are dropped
C10_Witness ==
    /\ SuggestDone
    /\ NumberOf(call.available_columns, "numeric") = 4
    /\ "histogram" \in KindsIn(result.suggestions)
    /\ "bar" \notin KindsIn(result.suggestions)
    /\ \E k \in 1..Len(result.suggestions) :
           /\ result.suggestions[k].chart_type = "histogram"
           /\ result.suggestions[k].score = 5

(***************************************************************************)
(* Vocabulary of the bonus and ranking claims                              *)
(***************************************************************************)
Categories == {"numeric", "categorical", "temporal"}

\* the entry of the kind in a list of suggestions that holds one
EntryOf(entries, kind) ==
    entries[CHOOSE k \in 1..Len(entries) : entries[k].chart_type = kind]

\* the part of an entry's score that is not the capped base score
BonusOf(entry, profile) ==
    entry.score - CappedSum(RequiredOf(entry.chart_type), profile)

HasTimeAndNumeric(profile) ==
    NumberOf(profile, "temporal") > 0 /\ NumberOf(profile, "numeric") > 0

HasCategoryAndNumeric(profile) ==
    NumberOf(profile, "categorical") > 0 /\ NumberOf(profile, "numeric") > 0

\* the bonus with Bar and Pie rewarded on the given condition
BonusTable(kind, profile, barPieCondition) ==
    CASE kind = "line" -> IF HasTimeAndNumeric(profile) THEN 3 ELSE 0
      [] kind = "bar" -> IF barPieCondition THEN 2 ELSE 0
      [] kind = "pie" -> IF barPieCondition THEN 1 ELSE 0
      [] kind = "scatter" -> IF NumberOf(profile, "numeric") >= 2 THEN 2 ELSE 0
      [] kind = "histogram" -> IF NumberOf(profile, "numeric") > 0 THEN 2 ELSE 0
      [] OTHER -> 0

(***************************************************************************)
(* C11 as stated: the bonus suggest_chart_types adds to a satisfiable      *)
(* kind's base score is Line +3, Bar +2 and Pie +1 for time+numeric        *)
(* profiles, Scatter +2 with two or more numeric columns, Histogram +2     *)
(* with any numeric column, and 0 for Box, Heatmap and Area.               *)
(***************************************************************************)
C11_BarAndPieBonusForTimeNumeric ==
    SuggestDone =>
        \A k \in 1..Len(result.suggestions) :
            LET e == result.suggestions[k]
                profile == call.available_columns
            IN  BonusOf(e, profile) =
                    BonusTable(e.chart_type, profile, HasTimeAndNumeric(profile))

(***************************************************************************)
(* C11 amended: the bonus suggest_chart_types adds to a satisfiable kind's *)
(* base score is Line +3 for time+numeric profiles, Bar +2 and Pie +1 for  *)
(* profiles with a categorical and a numeric column, Scatter +2 with two   *)
(* or more numeric columns, Histogram +2 with any numeric column, and 0    *)
(* for Box, Heatmap and Area and whenever the condition does not hold.     *)
(***************************************************************************)
C11_BarAndPieBonusForCategoryNumeric ==
    SuggestDone =>
        \A k \in 1..Len(result.suggestions) :
            LET e == result.suggestions[k]
                profile == call.available_columns
            IN  BonusOf(e, profile) =
                    BonusTable(e.chart_type, profile, HasCategoryAndNumeric(profile))

\* a profile with categorical and numeric columns and no temporal one: Bar
\* and Pie get their points, and Line, scored as well, gets none
C11_Witness ==
    /\ SuggestDone
    /\ HasCategoryAndNumeric(call.available_columns)
    /\ NumberOf(call.available_columns, "temporal") = 0
    /\ {"line", "bar", "pie"} \subseteq KindsIn(result.suggestions)
    /\ BonusOf(EntryOf(result.suggestions, "bar"), call.available_columns) = 2
    /\ BonusOf(EntryOf(result.suggestions, "pie"), call.available_columns) = 1
    /\ BonusOf(EntryOf(result.suggestions, "line"), call.available_columns) = 0

\* the profile without its columns of the category
Without(profile, category) ==
    LET Keeps(col) == _categorize_column_type(col["type"]) # category
    IN  SelectSeq(profile, Keeps)

\* kinds with a required role that accepts the category
KindsRequiring(category) ==
    { kind \in ChartType :
         \E req \in RequiredOf(kind) : category \in AllowedCategories(req) }

\* no entry of `after` has a higher score than the kind's entry of `before`,
\* and `after` has no kind that `before` lacks
NeverHigher(before, after, kinds) ==
    \A kind \in kinds \cap KindsIn(after) :
        /\ kind \in KindsIn(before)
        /\ EntryOf(after, kind).score <= EntryOf(before, kind).score

(***************************************************************************)
(* C12: for every profile and every semantic category C, removing all      *)
(* columns of category C from the profile never increases the score        *)
(* suggest_chart_types assigns to a chart kind that has a required role    *)
(* accepting C: the score stays equal, decreases, or the kind is dropped.  *)
(***************************************************************************)
C12_RemovingCategoryNeverRaisesScore ==
    SuggestDone =>
        \A category \in Categories :
            LET smaller == suggest_chart_types(Without(call.available_columns, category))
            IN  /\ NeverHigher(result.suggestions, smaller.suggestions,
                               KindsRequiring(category))
                /\ \A kind \in KindsRequiring(category) \cap KindsIn(smaller.value) :
                       kind \in KindsIn(result.value) =>
                           EntryOf(smaller.value, kind).score
                               <= EntryOf(result.value, kind).score

\* removing the temporal columns lowers the score of Line, which stays
\* satisfiable through a numeric column, and removing the categorical ones
\* drops Pie
C12_Witness ==
    /\ SuggestDone
    /\ NumberOf(call.available_columns, "temporal") > 0
    /\ {"line", "pie"} \subseteq KindsIn(result.suggestions)
    /\ LET smaller == suggest_chart_types(Without(call.available_columns, "temporal"))
       IN  /\ "line" \in KindsIn(smaller.suggestions)
           /\ EntryOf(smaller.suggestions, "line").score
                  < EntryOf(result.suggestions, "line").score
    /\ LET smaller == suggest_chart_types(Without(call.available_columns, "categorical"))
       IN  "pie" \notin KindsIn(smaller.suggestions)

\* position of the kind in a list of suggestions that holds it
RankOf(entries, kind) ==
    CHOOSE k \in 1..Len(entries) : entries[k].chart_type = kind

(***************************************************************************)
(* C13: for the profile [sales DOUBLE, region VARCHAR, date DATE],         *)
(* suggest_chart_types ranks Line above Pie and lists Bar among its first  *)
(* three entries.                                                          *)
(***************************************************************************)
C13_SalesProfileRanksLineAbovePieAndBarInTopThree ==
    (SuggestDone /\ call.available_columns = SalesProfile) =>
        /\ {"line", "pie", "bar"} \subseteq KindsIn(result.value)
        /\ RankOf(result.value, "line") < RankOf(result.value, "pie")
        /\ RankOf(result.value, "bar") <= 3

\* the suggestions for the sales profile have been returned
C13_Witness ==
    /\ SuggestDone
    /\ call.available_columns = SalesProfile
    /\ Len(result.value) = 5
    /\ EntryOf(result.value, "line").score > EntryOf(result.value, "pie").score

\* kind a stands before kind b whenever the list holds both
Above(entries, a, b) ==
    {a, b} \subseteq KindsIn(entries) => RankOf(entries, a) < RankOf(entries, b)

\* one numeric column, one temporal column and three or more categorical
\* columns: the capped counts of Bar's roles make up for Line's larger bonus
CategoriesLevelBarWithLine(profile) ==
    /\ NumberOf(profile, "numeric") = 1
    /\ NumberOf(profile, "temporal") = 1
    /\ NumberOf(profile, "categorical") >= 3

(***************************************************************************)
(* C28: for every profile with at least one temporal and one numeric       *)
(* column, suggest_chart_types ranks Line above Bar and Bar above Pie       *)
(* whenever those kinds are suggested.                                     *)
(***************************************************************************)
C28_LineAboveBarAbovePie ==
    (SuggestDone /\ HasTimeAndNumeric(call.available_columns)) =>
        /\ Above(result.value, "line", "bar")
        /\ Above(result.value, "bar", "pie")

(***************************************************************************)
(* C28 as the code has it: for every profile with at least one temporal    *)
(* and one numeric column, Bar is ranked above Pie whenever both are       *)
(* suggested, and Line is ranked above Bar whenever both are suggested,    *)
(* except for a profile of exactly one numeric, exactly one temporal and   *)
(* three or more categorical columns, where Line and Bar score the same    *)
(* and Bar, the earlier kind of the catalog, is ranked above Line.         *)
(***************************************************************************)
C28_LineAboveBarUnlessCategoriesLevelThem ==
    (SuggestDone /\ HasTimeAndNumeric(call.available_columns)) =>
        /\ Above(result.value, "bar", "pie")
        /\ IF CategoriesLevelBarWithLine(call.available_columns)
           THEN /\ Above(result.value, "bar", "line")
                /\ {"bar", "line"} \subseteq KindsIn(result.value) =>
                       EntryOf(result.value, "bar").score
                           = EntryOf(result.value, "line").score
           ELSE Above(result.value, "line", "bar")

\* Line, Bar and Pie are all suggested for a profile with a temporal and a
\* numeric column whose categories do not level Bar with Line
C28_Witness ==
    /\ SuggestDone
    /\ HasTimeAndNumeric(call.available_columns)
    /\ ~CategoriesLevelBarWithLine(call.available_columns)
    /\ {"line", "bar", "pie"} \subseteq KindsIn(result.value)
    /\ RankOf(result.value, "line") < RankOf(result.value, "bar")
    /\ RankOf(result.value, "bar") < RankOf(result.value, "pie")

\* every mapping of some of the kind's roles to columns of the profile
MappingsOver(kind, profile) ==
    UNION { [D -> ProfileNames(profile)] : D \in SUBSET RoleNames(kind) }

HasValidMapping(kind, profile) ==
    \E m \in MappingsOver(kind, profile) :
        LET outcome == validate_chart_configuration(kind, m, profile)
        IN  ~outcome.raised /\ outcome.value.valid

(***************************************************************************)
(* C30: for every profile, a chart kind is scored by suggest_chart_types   *)
(* (before the top-5 cut) iff there is a column mapping over columns of    *)
(* that profile for which validate_chart_configuration returns valid =     *)
(* true for that kind.                                                     *)
(***************************************************************************)
C30_ScoredIffSomeMappingValidates ==
    SuggestDone =>
        \A kind \in ChartType :
            kind \in KindsIn(result.suggestions)
                <=> HasValidMapping(kind, call.available_columns)

\* a profile of one numeric column: Scatter is scored, and validates with both
\* axes on that column; Bar is not scored and no mapping validates for it
C30_Witness ==
    /\ SuggestDone
    /\ Len(call.available_columns) = 1
    /\ NumberOf(call.available_columns, "numeric") = 1
    /\ "scatter" \in KindsIn(result.suggestions)
    /\ HasValidMapping("scatter", call.available_columns)
    /\ "bar" \notin KindsIn(result.suggestions)
    /\ ~HasValidMapping("bar", call.available_columns)

(***************************************************************************)
(* Vocabulary of the query-builder claims                                  *)
(***************************************************************************)
QueryDone == Done /\ call.op \in QueryOps

\* the whole name matches [A-Za-z_][A-Za-z0-9_]*
IsIdentifier(name) ==
    /\ Len(name) >= 1
    /\ name[1] \in Letters \cup {"_"}
    /\ \A i \in 2..Len(name) : name[i] \in Letters \cup Digits \cup {"_"}

\* the SQL position lies inside a double-quoted identifier: an odd number of
\* quote characters precedes it (a doubled quote leaves the state unchanged)
InsideQuotes(sql, i) ==
    Cardinality({ j \in 1..(i - 1) : sql[j] = "\"" }) % 2 = 1

OperatorsOf(filters) == { filters[i].operator : i \in 1..Len(filters) }

AllowedOperators ==
    {"=", "!=", ">", "<", ">=", "<=", "IN", "NOT IN", "LIKE", "NOT LIKE"}

(***************************************************************************)
(* C3: every query-building function returns SQL text only if the whole    *)
(* table name matches [A-Za-z_][A-Za-z0-9_]*; for any other name the call  *)
(* raises and returns no SQL; "users" is accepted and                      *)
(* "users; DROP TABLE users" is rejected.                                  *)
(***************************************************************************)
C3_SqlOnlyForIdentifierTableNames ==
    QueryDone =>
        /\ ~IsIdentifier(call.args.table_name) => result.raised
        /\ call.args.table_name = T_users => ~result.raised
        /\ call.args.table_name = T_users_drop => result.raised

(***************************************************************************)
(* C4: in every SQL string produced by QueryBuilder each caller-supplied   *)
(* column name appears only inside a double-quoted identifier with its     *)
(* embedded double quotes doubled: no character of a column name is        *)
(* emitted outside a quoted identifier (in an alias or a string literal),  *)
(* and no quoted identifier is left open.                                  *)
(***************************************************************************)
C4_ColumnNamesOnlyInQuotedIdentifiers ==
    (QueryDone /\ ~result.raised) =>
        /\ \A i \in 1..Len(result.value) :
               result.value[i] \in ColChars \ {"\""} =>
                   InsideQuotes(result.value, i)
        /\ ~InsideQuotes(result.value, Len(result.value) + 1)

(***************************************************************************)
(* C5: a filter whose operator is not one of =, !=, >, <, >=, <=, IN,      *)
(* NOT IN, LIKE, NOT LIKE contributes no condition to the generated SQL    *)
(* (no condition with its operator is emitted; a list of such filters      *)
(* gives the SQL of the call without filters) and does not make the        *)
(* builder raise: with an accepted table name the query is returned.       *)
(***************************************************************************)
HasUnsafeFilter ==
    \E i \in 1..Len(call.args.filters) :
        call.args.filters[i].operator \notin AllowedOperators

C5_UnsafeFiltersDroppedSilently ==
    (QueryDone /\ HasUnsafeFilter) =>
        /\ IsIdentifier(call.args.table_name) => ~result.raised
        /\ ~result.raised =>
               \A i \in 1..Len(result.value) :
                   result.value[i] \in OperatorsOf(call.args.filters) =>
                       result.value[i] \in AllowedOperators
        /\ OperatorsOf(call.args.filters) \cap AllowedOperators = {} =>
               result = QueryResult(call.op, [call.args EXCEPT !.filters = <<>>])

\* an allowed filter followed by a filter with an unknown operator: the query
\* is returned with the allowed filter's condition only
C5_Witness ==
    /\ QueryDone
    /\ call.op = "build_correlation_query"
    /\ Len(call.args.filters) = 2
    /\ call.args.filters[1].operator = "="
    /\ call.args.filters[2].operator = "REGEXP"
    /\ ~result.raised
    /\ Cardinality({ i \in 1..Len(result.value) : result.value[i] = "=" }) = 1
    /\ Cardinality({ i \in 1..Len(result.value) : result.value[i] = " WHERE " }) = 1

(***************************************************************************)
(* Vocabulary of the per-chart query claims: the clauses of the SQL text,   *)
(* read outside its double-quoted identifiers                               *)
(***************************************************************************)
AggregatingOps ==
    {"build_bar_chart_query", "build_pie_chart_query", "build_line_chart_query"}

\* SUM( opens at position i as SQL, followed by a quoted identifier
SumAppliedAt(sql, i) ==
    /\ ~InsideQuotes(sql, i)
    /\ \/ sql[i] = "SUM(" /\ i + 1 <= Len(sql) /\ sql[i + 1] = "\""
       \/ /\ sql[i] = "SUM" /\ i + 2 <= Len(sql)
          /\ sql[i + 1] = "(" /\ sql[i + 2] = "\""

SelectsSum(sql) == \E i \in 1..Len(sql) : SumAppliedAt(sql, i)

\* the keyword token stands in the SQL outside every quoted identifier
HasKeyword(sql, keyword) ==
    \E i \in 1..Len(sql) : sql[i] = keyword /\ ~InsideQuotes(sql, i)

\* the SQL ends with the clause keyword followed by the quoted column alone
EndsWithClauseOn(sql, keyword, column) ==
    LET quoted == _sanitize_column_name(column)
        n == Len(quoted) + 1
    IN  /\ Len(sql) >= n
        /\ SubSeq(sql, Len(sql) - n + 1, Len(sql)) = <<keyword>> \o quoted

(***************************************************************************)
(* C14: the bar, pie and line chart queries each select SUM applied to the *)
(* numeric column as an aggregate expression, GROUP BY the category/time   *)
(* axis column, and ORDER BY the aggregate descending (bar, pie) or by the *)
(* axis column ascending (line).                                           *)
(***************************************************************************)
C14_ChartQueriesAggregateGroupAndOrder ==
    (QueryDone /\ call.op \in AggregatingOps /\ ~result.raised) =>
        /\ SelectsSum(result.value)
        /\ HasKeyword(result.value, "GROUP BY ")
        /\ HasKeyword(result.value, "ORDER BY ")
        /\ call.op \in {"build_bar_chart_query", "build_pie_chart_query"} =>
               HasKeyword(result.value, " DESC")
        /\ call.op = "build_line_chart_query" =>
               EndsWithClauseOn(result.value, "ORDER BY ", call.args.columns[1])

(***************************************************************************)
(* Vocabulary of the histogram claim                                       *)
(***************************************************************************)
HistogramDone == Done /\ call.op = "run_histogram_query"

RECURSIVE SumOfFrequencies(_)
SumOfFrequencies(rows) ==
    IF rows = {} THEN 0
    ELSE LET r == CHOOSE q \in rows : TRUE
         IN  r.frequency + SumOfFrequencies(rows \ {r})

NonDegenerate(values) ==
    \E i, j \in NonNull(values) : values[i] # values[j]

(***************************************************************************)
(* C15: for every numeric column with max != min and every bin count >= 1, *)
(* the per-bin frequencies returned by the histogram query sum to the      *)
(* number of non-null rows of the column: every non-null row is counted in *)
(* exactly one bin.                                                        *)
(***************************************************************************)
C15_FrequenciesSumToNonNullRows ==
    (HistogramDone /\ NonDegenerate(call.values) /\ call.bins >= 1) =>
        /\ ~result.raised
        /\ SumOfFrequencies(result.value) = Cardinality(NonNull(call.values))
        /\ \A i \in NonNull(call.values) :
               Cardinality({ r \in result.value :
                   r.bin_number = bin_number(call.values[i], stats(call.values),
                                             call.bins, NULL) }) = 1

\* a column with a NULL and with values in more than one bin, the maximum in
\* the bin numbered `bins`
C15_Witness ==
    /\ HistogramDone
    /\ NonDegenerate(call.values)
    /\ \E i \in 1..Len(call.values) : call.values[i] = NULL
    /\ Cardinality(result.value) >= 2
    /\ \E r \in result.value : r.bin_number = Num(call.bins) /\ r.frequency >= 1
    /\ \E r \in result.value : r.frequency >= 2

(***************************************************************************)
(* C29: for every non-null value v of a column with max != min and every   *)
(* bin count b >= 1, the bin index FLOOR((v - min) / ((max - min) / b))    *)
(* computed by the histogram query lies in 0..b-1, so the query returns at *)
(* most b bins.                                                            *)
(***************************************************************************)
C29_BinIndexBelowBinCount ==
    (HistogramDone /\ NonDegenerate(call.values) /\ call.bins >= 1) =>
        /\ \A i \in NonNull(call.values) :
               LET number == bin_number(call.values[i], stats(call.values),
                                        call.bins, NULL)
               IN  /\ number.kind = "num"
                   /\ number.v \in 0..(call.bins - 1)
        /\ \A r \in result.value :
               r.bin_number.kind = "num" /\ r.bin_number.v \in 0..(call.bins - 1)
        /\ Cardinality(result.value) <= call.bins

(***************************************************************************)
(* Vocabulary of the insight claims                                        *)
(***************************************************************************)
InsightsDone == Done /\ call.op = "calculate_insights"

\* the report is the mapping from requested columns to their insights
Reported == InsightsDone /\ ~result.raised /\ "error" \notin DOMAIN result.value

\* the requested columns the frame holds
RequestedInFrame ==
    { call.columns[i] : i \in 1..Len(call.columns) } \cap columns_of(call.df)

CellsOf(column) == column_of(call.df, column).values

DistinctNonNull(cells) ==
    { cells[i].v : i \in { j \in 1..Len(cells) : cells[j] # NULL } }

(***************************************************************************)
(* C16: for every column, calculate_insights reports total_count as the    *)
(* number of all rows of the column (nulls included) and distinct_count as *)
(* the number of distinct non-null values.  (Stated for the columns that   *)
(* hold a value: a column without one gets an error entry.)                *)
(***************************************************************************)
C16_TotalCountAllRowsDistinctCountNonNull ==
    (Reported /\ {"total_count", "distinct_count"} \subseteq call.insight_types
              /\ call.fails = {}) =>
        \A column \in { c \in RequestedInFrame : DistinctNonNull(CellsOf(c)) # {} } :
            LET entry == result.value[column]
            IN  /\ {"total_count", "distinct_count"} \subseteq DOMAIN entry
                /\ entry["total_count"] = Len(CellsOf(column))
                /\ entry["distinct_count"] = Cardinality(DistinctNonNull(CellsOf(column)))

\* the computations of a column's entry that may differ from the report of
\* the same call without failures
FailedIn(column) == { f[2] : f \in { g \in call.fails : g[1] = column } }

\* the value that stands for a failed computation
ConfinedFailure(what, value) ==
    IF what \in {"distribution", "outliers"}
    THEN DOMAIN value = {"error"}
    ELSE value = NA

(***************************************************************************)
(* C17: for every list of requested columns, a failure while computing the *)
(* insights of one column is confined to that column's entry (an "N/A"     *)
(* value or an error key) and the report still contains the computed       *)
(* entries of every other requested column: apart from the failed          *)
(* computation the report is the report of the call without the failure.   *)
(***************************************************************************)
C17_FailureConfinedToItsEntry ==
    InsightsDone =>
        /\ Reported
        /\ call.fails # {} =>
               LET clean == calculate_insights(call.df, call.columns,
                                               call.insight_types, {}).value
               IN  /\ DOMAIN result.value = DOMAIN clean
                   /\ \A column \in RequestedInFrame :
                          /\ DOMAIN result.value[column] = DOMAIN clean[column]
                          /\ \A what \in DOMAIN clean[column] :
                                 IF what \in FailedIn(column)
                                 THEN ConfinedFailure(what, result.value[column][what])
                                 ELSE result.value[column][what] = clean[column][what]
                   /\ \A key \in {"correlations", "trends"} \cap DOMAIN clean :
                          IF <<"*", key>> \in call.fails
                          THEN DOMAIN result.value[key] = {"error"}
                          ELSE result.value[key] = clean[key]

\* max of the first of three columns raised: its max is "N/A", its other
\* statistics and the entries of the two other columns are computed
C17_Witness ==
    /\ Reported
    /\ Len(call.columns) = 3
    /\ call.fails = {<<call.columns[1], "max">>}
    /\ RequestedInFrame = { call.columns[i] : i \in 1..3 }
    /\ \A i \in 1..3 : {"max", "min"} \subseteq DOMAIN result.value[call.columns[i]]
    /\ result.value[call.columns[1]]["max"] = NA
    /\ result.value[call.columns[1]]["min"] # NA
    /\ result.value[call.columns[2]]["max"] # NA
    /\ result.value[call.columns[3]]["max"] # NA

\* the values of the column that are not NULL, in row order
SeriesOf(column) == dropna(CellsOf(column))

\* positions of the series outside [lower, upper], both given in eighths
FlaggedPositions(series, lower_x8, upper_x8) ==
    { i \in 1..Len(series) : 8 * series[i] < lower_x8 \/ 8 * series[i] > upper_x8 }

\* the k-th smallest element of a set of numbers
KthOf(S, k) == CHOOSE x \in S : Cardinality({ y \in S : y < x }) = k - 1

\* a value of the column as the report shows it: the integer, or the float
\* with two decimals
ShownValue(column, v) ==
    IF column_of(call.df, column).dtype = "int64"
    THEN Quotient("int", v, 1) ELSE Quotient("float", 100 * v, 100)

NumericWithValues(column) ==
    /\ is_numeric_dtype(column_of(call.df, column).dtype)
    /\ SeriesOf(column) # <<>>

(***************************************************************************)
(* C18: for every non-empty numeric column, the outlier report uses        *)
(* lower = Q1 - 1.5*(Q3-Q1) and upper = Q3 + 1.5*(Q3-Q1), flags exactly    *)
(* the values strictly below lower or strictly above upper, reports their  *)
(* count, at most the first 10 of them in row order, and                   *)
(* has_outliers = (count > 0); for [1,2,3,4,5,100] the bounds are          *)
(* [-1.5, 8.5] and only 100 is flagged.                                    *)
(***************************************************************************)
C18_OutliersByTukeyFence ==
    (Reported /\ "outliers" \in call.insight_types /\ call.fails = {}) =>
        \A column \in { c \in RequestedInFrame : NumericWithValues(c) } :
            LET series == SeriesOf(column)
                report == result.value[column]["outliers"]
                q1_x4 == quantile_x4(series, 1)
                q3_x4 == quantile_x4(series, 3)
                lower_x8 == 2 * q1_x4 - 3 * (q3_x4 - q1_x4)
                upper_x8 == 2 * q3_x4 + 3 * (q3_x4 - q1_x4)
                flagged == FlaggedPositions(series, lower_x8, upper_x8)
                shown == Min(10, Cardinality(flagged))
            IN  /\ report.count = Cardinality(flagged)
                /\ report.has_outliers = (report.count > 0)
                /\ report.lower_bound = Quotient("float", RoundHalfEven(lower_x8, 8), 100)
                /\ report.upper_bound = Quotient("float", RoundHalfEven(upper_x8, 8), 100)
                /\ Len(report.outlier_values) = shown
                /\ \A k \in 1..shown :
                       report.outlier_values[k]
                           = ShownValue(column, series[KthOf(flagged, k)])
                /\ CellsOf(column) = TukeyFixture =>
                       /\ report.lower_bound = Quotient("float", -150, 100)
                       /\ report.upper_bound = Quotient("float", 850, 100)
                       /\ report.count = 1
                       /\ report.outlier_values = << Quotient("int", 100, 1) >>

\* eleven outliers in a column of 48 rows: all counted, the first ten shown
C18_Witness ==
    /\ Reported
    /\ call.columns = <<"a">>
    /\ CellsOf("a") = ManyOutliers
    /\ call.fails = {}
    /\ "outliers" \in DOMAIN result.value["a"]
    /\ result.value["a"]["outliers"].count = 11
    /\ Len(result.value["a"]["outliers"].outlier_values) = 10
    /\ result.value["a"]["outliers"].has_outliers

\* the numeric requested columns, in request order
NumericRequested == numeric_columns_of(call.df, call.columns)

\* unordered pairs of distinct numeric requested columns
NumericPairs ==
    { pair \in SUBSET { NumericRequested[i] : i \in 1..Len(NumericRequested) } :
         Cardinality(pair) = 2 }

\* the absolute Pearson correlation of the two columns, over the rows where
\* both have a value, is defined and at least num/den
AbsPearsonAtLeast(col1, col2, num, den) ==
    LET m == moments(paired(CellsOf(col1), CellsOf(col2)))
    IN  /\ m.vx > 0 /\ m.vy > 0
        /\ m.c * m.c * den * den >= num * num * m.vx * m.vy

EntriesFor(entries, pair) ==
    { k \in 1..Len(entries) : {entries[k].column1, entries[k].column2} = pair }

CorrelationsReported ==
    /\ Reported
    /\ "correlations" \in DOMAIN result.value
    /\ <<"*", "correlations">> \notin call.fails

(***************************************************************************)
(* C19: strong_correlations contains exactly one entry for each unordered  *)
(* pair of distinct numeric requested columns whose absolute Pearson       *)
(* correlation is at or above the configured threshold (default 0.5), and  *)
(* no entry for any other pair.                                            *)
(***************************************************************************)
C19_StrongCorrelationsAreThePairsAtThreshold ==
    CorrelationsReported =>
        LET report == result.value["correlations"]
        IN  IF Len(NumericRequested) < 2
            THEN "strong_correlations" \notin DOMAIN report
            ELSE /\ report.threshold = [num |-> 1, den |-> 2]
                 /\ \A pair \in NumericPairs :
                        LET col1 == CHOOSE c \in pair : TRUE
                            col2 == CHOOSE c \in pair : c # col1
                        IN  Cardinality(EntriesFor(report.strong_correlations, pair))
                                = IF AbsPearsonAtLeast(col1, col2, 1, 2) THEN 1 ELSE 0
                 /\ \A k \in 1..Len(report.strong_correlations) :
                        {report.strong_correlations[k].column1,
                         report.strong_correlations[k].column2} \in NumericPairs

\* three numeric columns: a pair correlated at exactly 0.5 is listed, a pair
\* below the threshold is not
C19_Witness ==
    /\ CorrelationsReported
    /\ Len(NumericRequested) = 3
    /\ "strong_correlations" \in DOMAIN result.value["correlations"]
    /\ Len(result.value["correlations"].strong_correlations) >= 1
    /\ \E k \in 1..Len(result.value["correlations"].strong_correlations) :
           result.value["correlations"].strong_correlations[k].correlation
               = Quotient("float", 50, 100)
    /\ \E pair \in NumericPairs :
           EntriesFor(result.value["correlations"].strong_correlations, pair) = {}

\* the temporal requested columns, in request order
TemporalRequested == temporal_columns_of(call.df, call.columns)

TrendsReported ==
    /\ Reported
    /\ "trends" \in DOMAIN result.value
    /\ <<"*", "trends">> \notin call.fails

ElementsOf(seq) == { seq[i] : i \in 1..Len(seq) }

\* keys of the entries of the time branch and of the numeric branch
TimeKeys ==
    { <<n, "_over_", t>> : n \in ElementsOf(NumericRequested),
                           t \in ElementsOf(TemporalRequested) }

NumericKeys(ys) == { <<y, "_vs_", NumericRequested[1]>> : y \in ys }

(***************************************************************************)
(* C20 as stated: when the requested columns include at least one temporal *)
(* and one numeric column, trends holds exactly one entry per (temporal,   *)
(* numeric) pair and no numeric-versus-numeric entry; otherwise, when they *)
(* include at least two numeric columns, trends holds exactly one entry,   *)
(* regressing the second numeric column against the first.                 *)
(***************************************************************************)
C20_OneNumericTrendSecondAgainstFirst ==
    TrendsReported =>
        LET trends == result.value["trends"]
        IN  IF TemporalRequested # <<>> /\ NumericRequested # <<>>
            THEN DOMAIN trends = TimeKeys
            ELSE Len(NumericRequested) >= 2 =>
                     DOMAIN trends = NumericKeys({NumericRequested[2]})

(***************************************************************************)
(* C20 amended: when the requested columns include at least one temporal   *)
(* and one numeric column, trends holds exactly one entry per (temporal,   *)
(* numeric) pair and no numeric-versus-numeric entry; otherwise, when they *)
(* include at least two numeric columns, trends holds exactly one entry    *)
(* for each numeric column after the first, regressing it against the      *)
(* first; in every other case trends is empty.                             *)
(***************************************************************************)
C20_NumericTrendsOfEachLaterColumnAgainstFirst ==
    TrendsReported =>
        LET trends == result.value["trends"]
            later == { NumericRequested[j] : j \in 2..Len(NumericRequested) }
        IN  IF TemporalRequested # <<>> /\ NumericRequested # <<>>
            THEN /\ DOMAIN trends = TimeKeys
                 /\ Cardinality(DOMAIN trends)
                        = Len(TemporalRequested) * Len(NumericRequested)
                 /\ \A key \in DOMAIN trends :
                        trends[key] = _calculate_time_trend(call.df, key[3], key[1])
            ELSE IF Len(NumericRequested) >= 2
            THEN /\ DOMAIN trends = NumericKeys(later)
                 /\ Cardinality(DOMAIN trends) = Len(NumericRequested) - 1
                 /\ \A key \in DOMAIN trends :
                        trends[key] = _calculate_numeric_trend(call.df, key[3], key[1])
            ELSE DOMAIN trends = {}

\* three numeric columns and no temporal one: two entries, each against the
\* first column
C20_Witness ==
    /\ TrendsReported
    /\ TemporalRequested = <<>>
    /\ Len(NumericRequested) = 3
    /\ DOMAIN result.value["trends"]
           = { <<NumericRequested[2], "_vs_", NumericRequested[1]>>,
               <<NumericRequested[3], "_vs_", NumericRequested[1]>> }
    /\ \E key \in DOMAIN result.value["trends"] :
           "relationship" \in DOMAIN result.value["trends"][key]

(***************************************************************************)
(* Vocabulary of the _format_value claim                                   *)
(***************************************************************************)
FormatDone == Done /\ call.op = "_format_value" /\ ~result.raised

IsNumber(value) == value.kind \in {"int", "num"}

AtLeastThreshold(value) == Abs(value.num) >= SciThreshold * value.den

(***************************************************************************)
(* C21: _format_value returns "N/A" for NaN and null, scientific notation  *)
(* for every numeric value of magnitude at least 1e6, and the value        *)
(* rounded to decimal_places (2) for every other numeric value.            *)
(***************************************************************************)
C21_NaThenScientificThenRounded ==
    FormatDone =>
        LET value == call.value
            shown == result.value
        IN  /\ value.kind \in {"null", "nan"} => shown = NA
            /\ IsNumber(value) /\ AtLeastThreshold(value) => shown.kind = "sci"
            /\ IsNumber(value) /\ ~AtLeastThreshold(value) =>
                   IF value.kind = "int"
                   THEN shown.num = value.num /\ shown.den = 1
                   ELSE /\ shown.kind = "float" /\ shown.den = 100
                        /\ 2 * Abs(shown.num * value.den - 100 * value.num)
                               <= value.den

(***************************************************************************)
(* Vocabulary of the _categorize_column_type claim                         *)
(***************************************************************************)
CategorizeDone == Done /\ call.op = "_categorize_column_type"

\* two characters that are the same letter in either case, or the same character
SameLetter(c, d) ==
    \/ c = d
    \/ \E k \in 1..Len(LowerLetters) :
           {c, d} = {LowerLetters[k], UpperLetters[k]}

\* the text holds the token at some position, letter case put aside
HoldsToken(text, token) ==
    \E start \in 1..(Len(text) - Len(token) + 1) :
        \A k \in 1..Len(token) : SameLetter(text[start + k - 1], token[k])

HoldsOneOf(text, tokens) ==
    \E k \in 1..Len(tokens) : HoldsToken(text, tokens[k])

(***************************************************************************)
(* C22: for every raw type string _categorize_column_type returns, without *)
(* raising and whatever the letter case, numeric when the string holds a   *)
(* numeric token, else temporal when it holds DATE, TIMESTAMP or TIME,     *)
(* else categorical (boolean and unrecognised types included).             *)
(***************************************************************************)
C22_NumericThenTemporalElseCategorical ==
    CategorizeDone =>
        /\ ~result.raised
        /\ result.value
              = IF HoldsOneOf(call.sql_type, NumericTokens) THEN "numeric"
                ELSE IF HoldsOneOf(call.sql_type, TemporalTokens) THEN "temporal"
                ELSE "categorical"
        /\ \A spelling \in Spellings(upper(call.sql_type)) :
               _categorize_column_type(spelling) = result.value

\* a lower-case string holding a temporal and a numeric token is numeric
C22_Witness ==
    /\ CategorizeDone
    /\ call.sql_type = lower(<<"D","A","T","E">> \o <<"B","I","G","I","N","T">>)
    /\ result = Return("numeric")

(***************************************************************************)
(* Vocabulary of the chart detection claim                                 *)
(***************************************************************************)
DetectDone == Done /\ call.op = "detect_chart_type" /\ ~result.raised

\* the name of a chart kind as text
NameOf(chart_type) ==
    CASE chart_type = "bar" -> <<"b","a","r">>
      [] chart_type = "line" -> <<"l","i","n","e">>
      [] chart_type = "scatter" -> <<"s","c","a","t","t","e","r">>
      [] chart_type = "pie" -> <<"p","i","e">>
      [] chart_type = "histogram" -> <<"h","i","s","t","o","g","r","a","m">>
      [] chart_type = "box" -> <<"b","o","x">>
      [] chart_type = "heatmap" -> <<"h","e","a","t","m","a","p">>
      [] chart_type = "area" -> <<"a","r","e","a">>

\* the request names the kind
Names(request, chart_type) == HoldsToken(request, NameOf(chart_type))

\* the request holds a keyword of a kind other than chart_type
HoldsKeywordOfAnother(request, chart_type) ==
    \E other \in DOMAIN chart_keywords \ {chart_type} :
        HoldsOneOf(request, chart_keywords[other])

(***************************************************************************)
(* C23: detect_chart_type returns success = True with a chart_type among   *)
(* the 8 supported kinds, and a request that names a chart kind and holds  *)
(* no keyword of another kind is detected as that kind.                    *)
(***************************************************************************)
C23_DetectsTheNamedKind ==
    DetectDone =>
        /\ result.value.success
        /\ result.value.chart_type \in ChartType
        /\ \A chart_type \in ChartType :
               Names(call.request, chart_type)
                   /\ ~HoldsKeywordOfAnother(call.request, chart_type)
               => result.value.chart_type = chart_type

(***************************************************************************)
(* Vocabulary of the handler claims: steps of SpecHandler, named by the    *)
(* tool called (call') and the text answered (result')                     *)
(***************************************************************************)
\* a create_visualization call that stored a request
CreateStored ==
    /\ call'.op = "create_visualization"
    /\ result'.value.text = "Visualization Request Processed"

NumberActive(requests) == Cardinality(DOMAIN requests)

(***************************************************************************)
(* C24: each successful create_visualization stores its request under an   *)
(* id that was no key of active_requests, so no pending request is         *)
(* overwritten and the number of active requests grows by exactly one.     *)
(***************************************************************************)
C24_CreateStoresUnderAFreshId ==
    [][CreateStored =>
          /\ result'.value.shown \notin DOMAIN active_requests
          /\ NumberActive(active_requests') = NumberActive(active_requests) + 1
          /\ \A id \in DOMAIN active_requests :
                 id \in DOMAIN active_requests'
                     /\ active_requests'[id] = active_requests[id]]_vars

\* a configure_chart call on a request id that is a key of active_requests
ConfigureKnown ==
    /\ call'.op = "configure_chart"
    /\ call'.request_id \in DOMAIN active_requests

\* the validation of the call's mappings against the request, as the handler
\* finds the request and the database before the call
ValidationPasses ==
    LET viz_request == active_requests[call'.request_id]
    IN  validate_chart_configuration(
            viz_request.chart_type, call'.column_mappings,
            get_columns(db_manager, viz_request.table_name)).value.valid

\* the generation block returns: nothing in it raises, and the query finds a
\* connection (with connection None, execute_query raises AttributeError)
GenerationReturns ==
    call'.generation = "returns" /\ db_manager.connection = "open"

Removed == call'.request_id \notin DOMAIN active_requests'

OthersUntouched ==
    \A id \in DOMAIN active_requests \ {call'.request_id} :
        id \in DOMAIN active_requests' /\ active_requests'[id] = active_requests[id]

(***************************************************************************)
(* C26 as stated: configure_chart removes the entry of its request_id iff  *)
(* validation passes and generation returns without raising; after a       *)
(* validation failure the request stays with status pending_config, after  *)
(* a generation error with status error; a later configure_chart on the    *)
(* same id can complete it; an unknown id leaves active_requests unchanged.*)
(***************************************************************************)
C26_ValidationFailureLeavesPendingConfig ==
    [][call'.op = "configure_chart" =>
          IF ~ConfigureKnown
          THEN active_requests' = active_requests
          ELSE /\ Removed <=> (ValidationPasses /\ GenerationReturns)
               /\ OthersUntouched
               /\ ~ValidationPasses =>
                      ~Removed /\ active_requests'[call'.request_id].status
                                      = "pending_config"
               /\ ValidationPasses /\ ~GenerationReturns =>
                      ~Removed /\ active_requests'[call'.request_id].status = "error"]_vars

(***************************************************************************)
(* C26 amended: as above, but after a validation failure the request keeps *)
(* the status it had: pending_config, or error when an earlier             *)
(* configure_chart on it ended in a generation error.  Whatever its        *)
(* status, a call whose validation passes and whose generation returns     *)
(* removes it.                                                             *)
(***************************************************************************)
C26_ValidationFailureLeavesStatusAsItWas ==
    [][call'.op = "configure_chart" =>
          IF ~ConfigureKnown
          THEN active_requests' = active_requests
          ELSE /\ Removed <=> (ValidationPasses /\ GenerationReturns)
               /\ OthersUntouched
               /\ active_requests[call'.request_id].status \in {"pending_config", "error"}
               /\ ~ValidationPasses =>
                      ~Removed /\ active_requests'[call'.request_id].status
                                      = active_requests[call'.request_id].status
               /\ ValidationPasses /\ ~GenerationReturns =>
                      ~Removed /\ active_requests'[call'.request_id].status = "error"]_vars

\* a validation failure on a request that an earlier generation error left in
\* status error
C26_Witness ==
    /\ call.op = "configure_chart"
    /\ result.value.text = "Configuration validation failed"
    /\ call.request_id \in DOMAIN active_requests
    /\ active_requests[call.request_id].status = "error"

\* a change_database call that failed to open the new database
ChangeFailed ==
    /\ call'.op = "change_database"
    /\ result'.value.text = "Failed to connect to database"

(***************************************************************************)
(* C27: if change_database fails to open the new database, the database    *)
(* manager that was connected before is still open, and list_tables keeps  *)
(* answering from the old database.                                        *)
(***************************************************************************)
C27_FailedChangeKeepsTheOldDatabaseOpen ==
    [][ChangeFailed /\ db_manager.connection = "open" =>
          /\ db_manager'.connection = "open"
          /\ db_manager'.db_path = db_manager.db_path
          /\ get_tables(db_manager') = get_tables(db_manager)]_vars

(***************************************************************************)
(* Vocabulary of the WHERE clause claim                                    *)
(***************************************************************************)
\* a build_visualization_query call that returned, with k >= 1 filters, all of
\* them with an allowed operator
FilteredQueryDone ==
    /\ Done
    /\ call.op = "build_visualization_query"
    /\ ~result.raised
    /\ Len(call.args.filters) >= 1
    /\ \A i \in 1..Len(call.args.filters) :
           call.args.filters[i].operator \in safe_operators

\* the conditions of the filters after the first, each behind the logical
\* operator of its own filter
RECURSIVE LaterConditions(_)
LaterConditions(filters) ==
    IF filters = <<>> THEN <<>>
    ELSE <<" ", Head(filters).logical_operator, " ">>
             \o _build_filter_condition(Head(filters))
             \o LaterConditions(Tail(filters))

\* WHERE c1 op2 c2 ... opk ck
WhereOf(filters) ==
    <<"WHERE ">> \o _build_filter_condition(Head(filters))
        \o LaterConditions(Tail(filters))

(***************************************************************************)
(* C25: for a build_visualization_query call with k >= 1 filters of        *)
(* allowed operators, the WHERE clause holds the condition of each filter  *)
(* exactly once, in list order, each condition after the first preceded by *)
(* the logical operator of its own filter.                                 *)
(***************************************************************************)
C25_WhereJoinsEveryConditionInOrder ==
    FilteredQueryDone =>
        /\ Contains(result.value, WhereOf(call.args.filters))
        /\ Cardinality({ i \in 1..Len(result.value) : result.value[i] = "WHERE " }) = 1

====
